---------------------------- MODULE Spec2Model ----------------------------
(***************************************************************************)
(* Model of mdfr, a reader of ASAM MDF 3.x / 4.x measurement files.        *)
(*                                                                         *)
(* The module holds one state machine per subsystem of the reader; each    *)
(* has its own specification over the shared variable list and leaves the  *)
(* variables of the other subsystems at their idle value:                  *)
(*   SpecInfo      MdfInfo::new / get_version            (mdfinfo.rs)      *)
(*   SpecSorted    read_data of a sorted data group      (mdfreader4.rs)   *)
(*   SpecDecode    read_channels_from_bytes, whole block (data_read4.rs)   *)
(*                 against consecutive sub-chunks                          *)
(*   SpecUnsorted  read_data of an unsorted data group   (mdfreader4.rs)   *)
(*   SpecNames     build_channel_db3 and get_channel_master  (mdfinfo3.rs) *)
(*   SpecRerun     the version 3 info phase run twice on a file            *)
(*   SpecLayout    byte layout of a version 3 channel       (mdfinfo3.rs)  *)
(*   SpecConv      linear_conversion                        (mdfreader4.rs) *)
(*   SpecRational  rational_conversion                      (mdfreader4.rs) *)
(*   SpecComment   header and file history comments         (mdfinfo4.rs)  *)
(*   SpecMd        reading the text of an MD or TX block                   *)
(*   SpecDataInit  data_init and conversion of the new array (mdfreader4.rs) *)
(*   SpecMat       mdfreader4 on one data group             (mdfreader4.rs) *)
(*   SpecDl        parser_dl4_sorted on a list of data blocks (mdfreader4.rs) *)
(*   SpecChain     parser_dl4 on a chain of DL blocks       (mdfreader4.rs) *)
(*   SpecNil       links of version 3 blocks that may be NIL   (mdfinfo3.rs) *)
(*   SpecMask      apply_bit_mask_offset on an integer channel (mdfreader4.rs) *)
(*   SpecWide      unsigned integers of 5 to 8 bytes         (data_read4.rs) *)
(*   SpecPos       position after each data block            (mdfreader4.rs) *)
(*   SpecTable     text tables of the v3 conversion block      (mdfinfo3.rs) *)
(*   SpecMdf       channels of an Mdf held in memory            (mdfreader.rs) *)
(*   SpecPar       parallel decoding of the channels          (data_read4.rs) *)
(***************************************************************************)
EXTENDS Integers, Sequences, FiniteSets, TLC

VARIABLES
    \* ---- identification block and MdfInfo (mdfinfo.rs) ----
    id_buf,         \* bytes 28 and 29 of the 64-byte identification block
    mdf_info,       \* the MdfInfo value returned by MdfInfo::new, or NoInfo
    version,        \* the last result of get_version, or NoVersion
    \* ---- sorted data group being read (mdfreader4.rs) ----
    block_id,       \* the 4-byte id read at dg_data by mdfreader4
    channel_group,  \* Cg4: record_length, block.cg_cycle_count
    cn,             \* channel_group.cn: record position -> pos_byte_beg, n_bytes, endian
    cn_data,        \* cn.data of every channel: row -> value
    seed,           \* content of the data block payload, see Payload
    chunks,         \* the Vec returned by generate_chunks
    chunk_idx,      \* number of chunks the loop of read_all_channels_sorted has taken
    previous_index, \* previous_index of read_all_channels_sorted
    rdr_pos,        \* payload bytes consumed from the reader
    pc_sorted,      \* "idle", "start", "chunks" (inside the chunk loop), "done"
    \* ---- one channel decoded twice by read_channels_from_bytes (data_read4.rs) ----
    dec_cn,         \* Cn4 of the channel: kind of cn.data, pos_byte_beg, n_bytes, endian, pnd
    dec_records,    \* number N of records of the data block
    dec_seed,       \* content of the data block, see Payload
    dec_whole,      \* cn.data of the copy decoded by one call on the N records
    dec_whole_done, \* TRUE once that call has been made
    dec_parts,      \* cn.data of the copy decoded sub-chunk after sub-chunk
    dec_index,      \* records decoded so far into dec_parts: the next previous_index
    \* ---- unsorted data group being read (mdfreader4.rs) ----
    un_block_id,    \* the 4-byte id read at dg_data by mdfreader4
    un_dg,          \* Dg4: block.dg_rec_id_size, cg keyed by record id
    un_ids,         \* record ids of the records of the data block, in file order
    un_input,       \* the records of the payload (decompressed for ##DZ): id, length
    un_data_blocks, \* payload length of each data block (several for ##DL)
    un_next,        \* number of data blocks processed by parser_dl4_unsorted
    un_data,        \* the buffer handed to read_all_channels_unsorted_from_bytes
    record_counter, \* record id -> (index, sorted record bytes of the group)
    un_cn_data,     \* record id -> record position -> cn.data
    un_position,    \* position of read_all_channels_unsorted
    pc_unsorted,    \* "idle", "start", "chunks", "blocks", "done", "hang"
    \* ---- version 3 channel names (mdfinfo3.rs) ----
    cn3,            \* the CN blocks of the file, in file block traversal order
    unique_name,    \* cn.unique_name of every channel of cn3
    channel_names_set,    \* MdfInfo3.channel_names_set: name -> ChannelId3
    master_channel_name,  \* cg.block_position -> cg.master_channel_name
    runs_unique_name,     \* unique_name left by each info phase run on the file
    master_query,   \* channel_name last given to get_channel_master
    master,         \* what get_channel_master returned for it
    \* ---- byte layout of a version 3 channel (mdfinfo3.rs) ----
    cn_block2,      \* Cn3Block2: cn_bit_offset, cn_bit_count
    record_id_size, \* dg_n_record_ids of the data group
    cn_layout,      \* pos_byte_beg and n_bytes of the Cn3 parse_cn3_block built
    \* ---- conversion of a channel (mdfreader4.rs) ----
    raw_data,       \* cn.data as read from the data block
    conv_cn,        \* the Cn4: cn.data
    cc_val,         \* cc_val of the channel's conversion block: p1, p2
    pc_conv,        \* "idle", "raw", "converted", "panic"
    \* ---- comment blocks of a version 4 file (mdfinfo4.rs) ----
    hd_md_block,    \* the block hd_md_comment points to, hdr_id "nil" for link 0
    fh_md_block,    \* the block fh_md_comment points to
    hd_comment,     \* comments returned by hd4_comment_parser
    fh_comment,     \* comments returned by parse_fh_comment
    pc_comment,     \* "idle", "hd", "fh", "next", "panic"
    \* ---- text block being read (mdfinfo4.rs parse_md, mdfinfo3.rs parse_tx) ----
    md_version,     \* 4 for parse_md, 3 for parse_tx
    md_hdr_len,     \* block_header.hdr_len
    md_file,        \* bytes of the file after the block header, up to its end
    md_n_read,      \* bytes the read of the text obtained
    md_comment,     \* the comment returned
    pc_md,          \* "idle", "start", "returned", "panic"
    \* ---- initialisation of a channel array (mdfreader4.rs) ----
    init_cn,        \* the Cn4: block.cn_type, block.cn_data_type, n_bytes, data
    init_cycle_count,   \* cg_cycle_count of its channel group
    init_cc_val,    \* cc_val of its linear conversion: p1, p2
    pc_init,        \* "idle", "start", "initialised", "converted", "panic"
    \* ---- one data group going through mdfreader4 (mdfreader4.rs) ----
    mat_block_id,   \* the 4-byte id read at dg_data
    mat_cn,         \* channels of its channel group: cn_type, cc_type, data
    pc_mat,         \* "idle", "start", "read", "returned", "panic"
    \* ---- sorted data list being read (mdfreader4.rs) ----
    dl_data_blocks, \* payload length of each data block the DL blocks point to
    dl_cg,          \* the channel group: record_length, cg_cycle_count, cn
    dl_data,        \* data: Vec<u8> of parser_dl4_sorted
    dl_previous_index,  \* previous_index of parser_dl4_sorted
    dl_cn_data,     \* record position -> cn.data
    dl_next,        \* number of data blocks processed
    pc_dl,          \* "idle", "start", "blocks", "done"
    \* ---- chain of DL blocks being walked (mdfreader4.rs) ----
    ch_file,        \* the DL blocks of the file in chain order: address, dl_dl_next, length
    ch_file_len,    \* length of the file
    ch_cursor,      \* absolute offset of the reader
    ch_block,       \* block of parser_dl4: the one bound before the loop
    ch_next_dl,     \* next_dl of parser_dl4
    ch_dl_blocks,   \* dl_blocks of parser_dl4: addresses of the blocks pushed
    ch_position,    \* position of parser_dl4
    pc_chain,       \* "idle", "start", "loop", "done", "panic", "full"
    \* ---- version 3 metadata and its links (mdfinfo.rs, mdfinfo3.rs) ----
    nl_id,          \* identification block: id_default_byteorder, id_ver
    nl_file_len,    \* length of the file
    nl_hd_md_comment,   \* hd_md_comment of the HD block
    nl_cn,          \* the channels to parse: cn_cc_conversion, cn_ce_source
    nl_parsed,      \* number of channels parsed by parse_cn3_block
    nl_reads,       \* file offsets at which a block was read
    nl_cc,          \* sharable.cc: address -> cc_unit
    nl_ce,          \* keys of sharable.ce
    nl_units,       \* results of get_channel_unit, one per channel asked
    pc_nil,         \* "idle", "hd", "cn", "units", "done", "panic"
    \* ---- integer channel whose bits are masked (mdfreader4.rs) ----
    bm_cn,          \* cn_data_type, n_bytes, cn_bit_offset, cn_bit_count
    bm_raw,         \* bits of the n_bytes bytes of each record, least significant first
    bm_data,        \* cn.data: kind, and the bits of each element in its native type
    pc_mask,        \* "idle", "read", "masked"
    \* ---- unsigned integer channel of 5 to 8 bytes (data_read4.rs) ----
    wd_cn,          \* the channel: n_bytes, endian, pos_byte_beg
    wd_records,     \* the records of the data chunk, each a sequence of bytes
    wd_from_bytes,  \* cn.data after read_channels_from_bytes: bytes of each u64, least significant first
    wd_array,       \* cn.data after read_one_channel_array, likewise
    pc_wide,        \* "idle", "start", "done"
    \* ---- position bookkeeping of mdfreader4 and read_data (mdfreader4.rs) ----
    ps_dg,          \* info.dg in file order: dg_data, the block at dg_data, its channel groups
    ps_idx,         \* index in ps_dg of the data group of the current iteration
    ps_position,    \* position of mdfreader4
    ps_cursor,      \* absolute file offset of the cursor of rdr
    pc_pos,         \* "idle", "loop", "id", "done"
    \* ---- text tables of parse_cc3_block, cc_type 11 and 12 (mdfinfo3.rs) ----
    tb_block,       \* cc_block: cc_type, cc_size
    tb_rows,        \* the rows of the block in the file: (value, 32 bytes) or (low, high, pointer)
    tb_file_len,    \* length of the file
    tb_index,       \* index of the running loop
    tb_text,        \* the String text of the cc_type 11 arm
    tb_pointer,     \* pairs_pointer of the cc_type 12 arm
    tb_pairs,       \* pairs (cc_type 11) or pairs_string (cc_type 12)
    tb_reads,       \* addresses given to parse_tx, in order
    tb_cc,          \* the conversion stored in sharable.cc, <<>> before
    pc_table,       \* "idle", "start", "rows", "pointers", "texts", "insert", "done", "panic"
    \* ---- struct Mdf (mdfreader.rs) ----
    arrow_data,       \* Vec<Vec<Box<dyn Array>>>: the chunks, each a sequence of arrays
    arrow_fields,     \* arrow_schema.fields: the channel name of each field
    arrow_metadata,   \* arrow_schema.metadata
    channel_indexes,  \* name -> chunk_index, array_index, field_index (counted from 0)
    mdf_stored,       \* history: name -> the array last stored under that name
    mdf_op,           \* history: the last method called and the names it was given
    mdf_ops,          \* number of methods called
    pc_mdf,           \* "idle", "run", "panic"
    \* ---- read_channels_from_bytes, the parallel iteration (data_read4.rs) ----
    par_cn,         \* channels: record position -> the channel as it is at the call
    par_names,      \* channel_names_to_read_in_dg
    par_chunk,      \* data_chunk: previous_index and the number of records
    par_data,       \* record position -> cn.data, a sequence of values
    par_task,       \* record position -> state of the task of the channel, records done
    par_vlsd,       \* vlsd_channels, behind its mutex
    par_result,     \* the Vec<i32> returned
    pc_par          \* "idle", "start", "forked", "returned"

infoVars == <<id_buf, mdf_info, version>>

sortedVars == <<block_id, channel_group, cn, cn_data, seed, chunks, chunk_idx,
                previous_index, rdr_pos, pc_sorted>>

decodeVars == <<dec_cn, dec_records, dec_seed, dec_whole, dec_whole_done, dec_parts,
                dec_index>>

unsortedVars == <<un_block_id, un_dg, un_ids, un_input, un_data_blocks, un_next, un_data,
                  record_counter, un_cn_data, un_position, pc_unsorted>>

namesVars == <<cn3, unique_name, channel_names_set, master_channel_name,
               runs_unique_name, master_query, master>>

layoutVars == <<cn_block2, record_id_size, cn_layout>>

convVars == <<raw_data, conv_cn, cc_val, pc_conv>>

commentVars == <<hd_md_block, fh_md_block, hd_comment, fh_comment, pc_comment>>

dlVars == <<dl_data_blocks, dl_cg, dl_data, dl_previous_index, dl_cn_data, dl_next,
            pc_dl>>

matVars == <<mat_block_id, mat_cn, pc_mat>>

initVars == <<init_cn, init_cycle_count, init_cc_val, pc_init>>

mdVars == <<md_version, md_hdr_len, md_file, md_n_read, md_comment, pc_md>>

chainVars == <<ch_file, ch_file_len, ch_cursor, ch_block, ch_next_dl, ch_dl_blocks,
               ch_position, pc_chain>>

nilVars == <<nl_id, nl_file_len, nl_hd_md_comment, nl_cn, nl_parsed, nl_reads, nl_cc,
             nl_ce, nl_units, pc_nil>>

maskVars == <<bm_cn, bm_raw, bm_data, pc_mask>>

wideVars == <<wd_cn, wd_records, wd_from_bytes, wd_array, pc_wide>>

posVars == <<ps_dg, ps_idx, ps_position, ps_cursor, pc_pos>>

tableVars == <<tb_block, tb_rows, tb_file_len, tb_index, tb_text, tb_pointer, tb_pairs,
               tb_reads, tb_cc, pc_table>>

mdfVars == <<arrow_data, arrow_fields, arrow_metadata, channel_indexes, mdf_stored,
             mdf_op, mdf_ops, pc_mdf>>

parVars == <<par_cn, par_names, par_chunk, par_data, par_task, par_vlsd, par_result,
             pc_par>>

vars == <<infoVars, sortedVars, decodeVars, unsortedVars, namesVars, layoutVars,
          convVars, commentVars, mdVars, initVars, matVars, dlVars, chainVars, nilVars, maskVars, wideVars, posVars, tableVars, mdfVars, parVars>>

(***************************************************************************)
(* Bounds of the model.                                                    *)
(***************************************************************************)
MaxIdVerHi == 2         \* high byte of id_ver ranges over 0..MaxIdVerHi
MaxCycleCount == 7      \* cg_cycle_count ranges over 0..MaxCycleCount
MaxSmallRecord == 3     \* small record lengths 1..MaxSmallRecord
MaxDivisor == 3         \* large record lengths around CHUNK_SIZE_READING / 1..MaxDivisor
MaxDecodeRecords == 3   \* records of the block decoded whole and in sub-chunks
MaxUnsortedRecords == 4 \* records of the unsorted data block
MaxGroups == 3          \* channel groups of the unsorted data group
MaxChannels == 3        \* CN blocks of the version 3 file
MaxBitOffset == 17      \* cn_bit_offset of the version 3 channel
MaxBitCount == 16       \* cn_bit_count of the version 3 channel
MaxCoefHalf == 4        \* conversion coefficients go up to MaxCoefHalf / 2
MaxConvCycles == 2      \* cg_cycle_count of the converted channel
MaxRatCoef == 1         \* rational conversion coefficients are 0..MaxRatCoef
MaxXmlNodes == 2        \* element nodes of the XML document of a comment block
MaxMdLen == 3           \* bytes of text of an MD or TX block
MaxInitBytes == 8       \* n_bytes of the channel whose array is initialised
MaxInitCycles == 3      \* cg_cycle_count of the channel whose array is initialised
MaxDlBlocks == 3        \* data blocks of the sorted data list
MaxDlBlockLen == 4      \* payload bytes of a data block of the data list
MaxDlRecord == 3        \* record length of the group read from the data list
LargeRecordPad == 262144    \* pad bytes of the large records of an unsorted block
MaxChain == 4           \* DL blocks of the chain
MaxPushed == 6          \* blocks pushed to dl_blocks before the walk is cut
MaxNilChannels == 2     \* channels of the version 3 file whose links may be NIL
MaxMaskBytes == 7       \* n_bytes of the integer channel whose bits are masked
MaxWideRecords == 2     \* records decoded into the channel of 5 to 8 bytes
MaxPosDgs == 2          \* data groups of the file read by mdfreader4
MaxPosRecord == 2       \* record_length of their channel groups
MaxPosCycles == 2       \* cg_cycle_count of their channel groups
MaxPosCgs == 2          \* channel groups of a data group
PosExtra == 8           \* bytes of a data block after its last record
FirstDgData == 64       \* file offset of the first data block
MaxCcSize == 2          \* cc_size of the text table
MaxMdfOps == 4          \* methods called on the Mdf
MaxMdfArray == 2        \* distinct arrays given to add_channel and set_channel_data
MaxParRecords == 2      \* records of the data chunk decoded in parallel

(***************************************************************************)
(* Identification block, MdfInfo::new and get_version.                     *)
(***************************************************************************)
NoInfo == [variant |-> "none", id_ver |-> 0]
NoVersion == 0 - 1

\* binrw read_le of the u16 field id_ver, at bytes 28..29 of the block
IdBlock_id_ver(buf) == buf[1] + 256 * buf[2]

\* mutant of MdfInfoVariant: the boundary version 400 is sent to the v3 parser
MdfInfoVariant_Boundary(id_ver) == IF id_ver <= 400 THEN "V3" ELSE "V4"

\* the version branch of MdfInfo::new
MdfInfoVariant(id_ver) == IF id_ver < 400 THEN "V3" ELSE "V4"

(***************************************************************************)
(* Sorted data groups: generate_chunks, read_all_channels_sorted,          *)
(* read_channels_from_bytes and read_all_channels_sorted_from_bytes of     *)
(* mdfreader4.rs.                                                          *)
(***************************************************************************)
CHUNK_SIZE_READING == 524288

\* byte at offset o of the payload of the data block (after decompression
\* for a ##DZ block); the seed makes the content an input
Payload(s, o) == (s + o) % 251

\* the payload as the byte buffer the reader hands out, indexed from 0
PayloadBytes(s) == [o \in Nat |-> Payload(s, o)]

\* record lengths: small ones, and ones around a fraction of the chunk size
RecordLengths ==
    (1..MaxSmallRecord) \cup
    {CHUNK_SIZE_READING \div k + d : k \in 1..MaxDivisor, d \in {0 - 1, 0, 1}}

\* channels of the group, keyed by record position: a one-byte unsigned
\* integer at byte 0 and, when the record has room, a two-byte unsigned
\* integer in the last two bytes, little or big endian
Channels(record_length, endian) ==
    IF record_length >= 3
    THEN (0 :> [pos_byte_beg |-> 0, n_bytes |-> 1, endian |-> FALSE]) @@
         (1 :> [pos_byte_beg |-> record_length - 2, n_bytes |-> 2, endian |-> endian])
    ELSE (0 :> [pos_byte_beg |-> 0, n_bytes |-> 1, endian |-> FALSE])

\* u8::from_le_bytes, u16::from_le_bytes / from_be_bytes, read_u24 of the
\* n bytes at offset o of the buffer b
RECURSIVE FromLeBytes(_, _, _)
FromLeBytes(b, o, n) ==
    IF n = 0 THEN 0 ELSE b[o] + 256 * FromLeBytes(b, o + 1, n - 1)

RECURSIVE FromBeBytes(_, _, _)
FromBeBytes(b, o, n) ==
    IF n = 0 THEN 0 ELSE FromBeBytes(b, o, n - 1) * 256 + b[o + n - 1]

\* value of channel c in the record that starts at offset rec of buffer s
ChannelValue(s, c, rec) ==
    IF c.endian THEN FromBeBytes(s, rec + c.pos_byte_beg, c.n_bytes)
    ELSE FromLeBytes(s, rec + c.pos_byte_beg, c.n_bytes)

\* data_init / initialise_arrays: a zeroed array of cycle_count rows
InitialiseArrays(cns, cycle_count) ==
    [k \in DOMAIN cns |-> [i \in 0..(cycle_count - 1) |-> 0]]

\* mutant of GenerateChunks: the records left by the rounding are not given a
\* chunk of their own
GenerateChunks_NoTail(record_length, cg_cycle_count) ==
    LET n_chunks == (record_length * cg_cycle_count) \div CHUNK_SIZE_READING + 1
        chunk_length == (record_length * cg_cycle_count) \div n_chunks
        n_record_chunk == chunk_length \div record_length
    IN  [j \in 1..n_chunks |-> <<n_record_chunk, record_length * n_record_chunk>>]

\* generate_chunks: the list of (number of records, byte size) of the chunks
GenerateChunks(record_length, cg_cycle_count) ==
    LET n_chunks == (record_length * cg_cycle_count) \div CHUNK_SIZE_READING + 1
        chunk_length == (record_length * cg_cycle_count) \div n_chunks
        n_record_chunk == chunk_length \div record_length
        chunck == <<n_record_chunk, record_length * n_record_chunk>>
        first == [j \in 1..n_chunks |-> chunck]
        rest == cg_cycle_count - n_record_chunk * n_chunks
    IN  IF rest > 0 THEN Append(first, <<rest, record_length * rest>>) ELSE first

\* number of slices of data_chunk.chunks(record_length)
NChunkRecords(len, record_length) == (len + record_length - 1) \div record_length

\* read_channels_from_bytes of mdfreader4.rs on the data chunk made of the
\* len bytes of buffer s from offset start: record i of the chunk is written
\* to row i + previous_index of every channel
Reader4ReadChannelsFromBytes(s, start, len, cns, data, record_length, prev) ==
    [k \in DOMAIN cns |->
        [r \in DOMAIN data[k] |->
            IF r >= prev /\ r - prev < NChunkRecords(len, record_length)
            THEN ChannelValue(s, cns[k], start + (r - prev) * record_length)
            ELSE data[k][r]]]

\* the loop of read_all_channels_sorted_from_bytes from record nrecord on
RECURSIVE SortedFromBytesLoop(_, _, _, _, _, _)
SortedFromBytesLoop(s, cns, data, record_length, nrecord, cycle_count) ==
    IF nrecord >= cycle_count THEN data
    ELSE SortedFromBytesLoop(s, cns,
            Reader4ReadChannelsFromBytes(s, nrecord * record_length, record_length,
                                         cns, data, record_length, 0),
            record_length, nrecord + 1, cycle_count)

SortedInit ==
    /\ block_id \in {"##DT", "##DV", "##DZ"}
    /\ channel_group \in [record_length : RecordLengths,
                          cg_cycle_count : 0..MaxCycleCount]
    /\ \E e \in BOOLEAN : cn = Channels(channel_group.record_length, e)
    /\ cn_data = [k \in DOMAIN cn |-> [i \in {} |-> 0]]
    /\ seed \in {0, 1}
    /\ chunks = <<>>
    /\ chunk_idx = 0
    /\ previous_index = 0
    /\ rdr_pos = 0
    /\ pc_sorted = "start"

SortedIdle ==
    /\ block_id = "none"
    /\ channel_group = [record_length |-> 1, cg_cycle_count |-> 0]
    /\ cn = <<>>
    /\ cn_data = <<>>
    /\ seed = 0
    /\ chunks = <<>>
    /\ chunk_idx = 0
    /\ previous_index = 0
    /\ rdr_pos = 0
    /\ pc_sorted = "idle"

\* read_all_channels_sorted up to its chunk loop
EnterReadAllChannelsSorted ==
    /\ chunks' = GenerateChunks(channel_group.record_length, channel_group.cg_cycle_count)
    /\ cn_data' = InitialiseArrays(cn, channel_group.cg_cycle_count)
    /\ previous_index' = 0
    /\ chunk_idx' = 0
    /\ pc_sorted' = "chunks"
    /\ UNCHANGED <<block_id, channel_group, cn, seed, rdr_pos>>
    /\ UNCHANGED <<infoVars, decodeVars, unsortedVars, namesVars, layoutVars, convVars, commentVars, mdVars, initVars, matVars, dlVars, chainVars, nilVars, maskVars, wideVars, posVars, tableVars, mdfVars, parVars>>

\* read_data, "##DT" branch with one channel group
ReadDataDT ==
    /\ pc_sorted = "start"
    /\ block_id = "##DT"
    /\ EnterReadAllChannelsSorted

\* read_data, "##DV" branch
ReadDataDV ==
    /\ pc_sorted = "start"
    /\ block_id = "##DV"
    /\ EnterReadAllChannelsSorted

\* one iteration of the chunk loop of read_all_channels_sorted
ReadChunk ==
    /\ pc_sorted = "chunks"
    /\ chunk_idx < Len(chunks)
    /\ LET n_record_chunk == chunks[chunk_idx + 1][1]
           chunk_size == chunks[chunk_idx + 1][2]
       IN  /\ cn_data' = Reader4ReadChannelsFromBytes(PayloadBytes(seed), rdr_pos, chunk_size, cn, cn_data,
                                                      channel_group.record_length,
                                                      previous_index)
           /\ rdr_pos' = rdr_pos + chunk_size
           /\ previous_index' = previous_index + n_record_chunk
    /\ chunk_idx' = chunk_idx + 1
    /\ UNCHANGED <<block_id, channel_group, cn, seed, chunks, pc_sorted>>
    /\ UNCHANGED <<infoVars, decodeVars, unsortedVars, namesVars, layoutVars, convVars, commentVars, mdVars, initVars, matVars, dlVars, chainVars, nilVars, maskVars, wideVars, posVars, tableVars, mdfVars, parVars>>

\* the chunk loop of read_all_channels_sorted is over
EndReadAllChannelsSorted ==
    /\ pc_sorted = "chunks"
    /\ chunk_idx = Len(chunks)
    /\ pc_sorted' = "done"
    /\ UNCHANGED <<block_id, channel_group, cn, cn_data, seed, chunks, chunk_idx,
                   previous_index, rdr_pos>>
    /\ UNCHANGED <<infoVars, decodeVars, unsortedVars, namesVars, layoutVars, convVars, commentVars, mdVars, initVars, matVars, dlVars, chainVars, nilVars, maskVars, wideVars, posVars, tableVars, mdfVars, parVars>>

\* read_data, "##DZ" branch with one channel group: parse_dz, then
\* read_all_channels_sorted_from_bytes on the decompressed data
ReadDataDZ ==
    /\ pc_sorted = "start"
    /\ block_id = "##DZ"
    /\ cn_data' = SortedFromBytesLoop(PayloadBytes(seed), cn,
                      InitialiseArrays(cn, channel_group.cg_cycle_count),
                      channel_group.record_length, 0, channel_group.cg_cycle_count)
    /\ rdr_pos' = channel_group.record_length * channel_group.cg_cycle_count
    /\ pc_sorted' = "done"
    /\ UNCHANGED <<block_id, channel_group, cn, seed, chunks, chunk_idx, previous_index>>
    /\ UNCHANGED <<infoVars, decodeVars, unsortedVars, namesVars, layoutVars, convVars, commentVars, mdVars, initVars, matVars, dlVars, chainVars, nilVars, maskVars, wideVars, posVars, tableVars, mdfVars, parVars>>

(***************************************************************************)
(* read_channels_from_bytes of data_read4.rs, for one channel.  Floating   *)
(* point elements are kept as the integer their bytes spell.               *)
(***************************************************************************)
\* the channels decoded: one per way read_channels_from_bytes indexes cn.data
DecodeChannels ==
    { [kind |-> "UInt16", pos_byte_beg |-> 1, n_bytes |-> 2, endian |-> e, pnd |-> 1,
       record_length |-> 4] : e \in BOOLEAN } \cup
    { [kind |-> "Complex16", pos_byte_beg |-> 0, n_bytes |-> 4, endian |-> e, pnd |-> 1,
       record_length |-> 5] : e \in BOOLEAN } \cup
    { [kind |-> "VariableSizeByteArray", pos_byte_beg |-> 1, n_bytes |-> 2,
       endian |-> FALSE, pnd |-> 1, record_length |-> 3],
      [kind |-> "FixedSizeByteArray", pos_byte_beg |-> 0, n_bytes |-> 2,
       endian |-> FALSE, pnd |-> 1, record_length |-> 3],
      [kind |-> "ArrayDUInt8", pos_byte_beg |-> 1, n_bytes |-> 2,
       endian |-> FALSE, pnd |-> 2, record_length |-> 4],
      [kind |-> "ArrayDComplex16", pos_byte_beg |-> 0, n_bytes |-> 8,
       endian |-> FALSE, pnd |-> 2, record_length |-> 9] }

\* the outcome of a panic (a failed expect) in place of the array
Panicked == <<"panic">>

\* cn.data before decoding: zeroed and sized for cycle_count records
DecodeDataInit(c, cycle_count) ==
    CASE c.kind = "UInt16" -> [i \in 0..(cycle_count - 1) |-> 0]
      [] c.kind = "Complex16" -> [i \in 0..(2 * cycle_count - 1) |-> 0]
      [] c.kind = "VariableSizeByteArray" -> [i \in 0..(cycle_count - 1) |-> <<>>]
      [] c.kind = "FixedSizeByteArray" -> <<>>
      [] c.kind = "ArrayDUInt8" -> [i \in 0..(cycle_count * c.pnd - 1) |-> 0]
      [] c.kind = "ArrayDComplex16" -> [i \in 0..(2 * cycle_count * c.pnd - 1) |-> 0]

\* the n bytes from offset o of the buffer b, as a Vec
RECURSIVE PayloadSlice(_, _, _)
PayloadSlice(b, o, n) ==
    IF n = 0 THEN <<>> ELSE <<b[o]>> \o PayloadSlice(b, o + 1, n - 1)

\* f16::from_be_bytes / from_le_bytes, u16::from_be_bytes / from_le_bytes
FromBytes(s, o, n, endian) ==
    IF endian THEN FromBeBytes(s, o, n) ELSE FromLeBytes(s, o, n)

\* index of the real part of record i in the flat array of a complex channel
ComplexIndex(i, prev) == i * 2 + prev

\* writes of the Complex16 arm for the records i..n-1 of the chunk
RECURSIVE ComplexLoop(_, _, _, _, _, _, _)
ComplexLoop(s, start, c, data, i, n, prev) ==
    IF i >= n THEN data
    ELSE LET rec == start + i * c.record_length + c.pos_byte_beg
             re == FromBytes(s, rec, 2, c.endian)
             im == FromBytes(s, rec + 2, 2, c.endian)
             d1 == [data EXCEPT ![ComplexIndex(i, prev)] = re]
             d2 == [d1 EXCEPT ![ComplexIndex(i, prev) + 1] = im]
         IN  ComplexLoop(s, start, c, d2, i + 1, n, prev)

\* read_channels_from_bytes of data_read4.rs for a requested channel on the
\* chunk made of the len payload bytes from offset start
ReadChannelFromBytes(s, start, len, c, data, prev) ==
    LET n == NChunkRecords(len, c.record_length)
        rec(i) == start + i * c.record_length + c.pos_byte_beg
    IN  CASE c.kind = "UInt16" ->
               \* data[i + previous_index] = from_xx_bytes(value)
               [r \in DOMAIN data |->
                   IF r >= prev /\ r - prev < n
                   THEN FromBytes(s, rec(r - prev), 2, c.endian)
                   ELSE data[r]]
          [] c.kind = "Complex16" ->
               \* data.0[i*2 + previous_index] and data.0[i*2 + 1 + previous_index]
               ComplexLoop(s, start, c, data, 0, n, prev)
          [] c.kind = "VariableSizeByteArray" ->
               \* data[i + previous_index] = record[..].to_vec()
               [r \in DOMAIN data |->
                   IF r >= prev /\ r - prev < n
                   THEN PayloadSlice(s, rec(r - prev), c.n_bytes)
                   ELSE data[r]]
          [] c.kind = "FixedSizeByteArray" ->
               \* data.0.extend_from_slice(record[..])
               data \o [r \in 1..(n * c.n_bytes) |->
                           s[rec((r - 1) \div c.n_bytes) + ((r - 1) % c.n_bytes)]]
          [] c.kind = "ArrayDUInt8" ->
               \* data.0[(i + previous_index) * ca.pnd + j]
               [r \in DOMAIN data |->
                   IF r \div c.pnd >= prev /\ r \div c.pnd - prev < n
                   THEN FromLeBytes(s, rec(r \div c.pnd - prev) + (r % c.pnd), 1)
                   ELSE data[r]]
          [] c.kind = "ArrayDComplex16" ->
               \* re_val is a slice of 2 * size_of::<f16>() bytes: the try_into
               \* to [u8; 2] fails and expect panics on the first record
               IF n > 0 THEN Panicked ELSE data

DecodeInit ==
    /\ dec_cn \in DecodeChannels
    /\ dec_records \in 1..MaxDecodeRecords
    /\ dec_seed \in {0, 100}
    /\ dec_whole = DecodeDataInit(dec_cn, dec_records)
    /\ dec_whole_done = FALSE
    /\ dec_parts = DecodeDataInit(dec_cn, dec_records)
    /\ dec_index = 0

DecodeIdle ==
    /\ dec_cn = [kind |-> "none"]
    /\ dec_records = 0
    /\ dec_seed = 0
    /\ dec_whole = <<>>
    /\ dec_whole_done = FALSE
    /\ dec_parts = <<>>
    /\ dec_index = 0

\* read_channels_from_bytes called once on the N records, previous_index = 0
DecodeWhole ==
    /\ dec_cn.kind # "none"
    /\ ~dec_whole_done
    /\ dec_whole' = ReadChannelFromBytes(PayloadBytes(dec_seed), 0, dec_records * dec_cn.record_length,
                                         dec_cn, dec_whole, 0)
    /\ dec_whole_done' = TRUE
    /\ UNCHANGED <<dec_cn, dec_records, dec_seed, dec_parts, dec_index>>
    /\ UNCHANGED <<infoVars, sortedVars, unsortedVars, namesVars, layoutVars, convVars, commentVars, mdVars, initVars, matVars, dlVars, chainVars, nilVars, maskVars, wideVars, posVars, tableVars, mdfVars, parVars>>

\* read_channels_from_bytes called on the next k records, previous_index being
\* the number of records already decoded
DecodeSubChunk ==
    /\ dec_cn.kind # "none"
    /\ dec_parts # Panicked
    /\ \E k \in 1..(dec_records - dec_index) :
          /\ dec_parts' = ReadChannelFromBytes(PayloadBytes(dec_seed), dec_index * dec_cn.record_length,
                                               k * dec_cn.record_length, dec_cn, dec_parts,
                                               dec_index)
          /\ dec_index' = dec_index + k
    /\ UNCHANGED <<dec_cn, dec_records, dec_seed, dec_whole, dec_whole_done>>
    /\ UNCHANGED <<infoVars, sortedVars, unsortedVars, namesVars, layoutVars, convVars, commentVars, mdVars, initVars, matVars, dlVars, chainVars, nilVars, maskVars, wideVars, posVars, tableVars, mdfVars, parVars>>

(***************************************************************************)
(* Unsorted data groups: read_all_channels_unsorted and                    *)
(* read_all_channels_unsorted_from_bytes of mdfreader4.rs.  The channel    *)
(* groups of the model are fixed-length ones (bit 0 of cg_flags clear).    *)
(***************************************************************************)
\* a Vec<u8> as a buffer indexed from 0
BufferOf(v) == [o \in 0..(Len(v) - 1) |-> v[o + 1]]

\* A Vec<u8> of the unsorted reader is a sequence of slices of the payload
\* of the data block, [from |-> offset, len |-> bytes]: the payload can be
\* larger than CHUNK_SIZE_READING and is never copied byte by byte.

\* channels of a group of an unsorted data group: a byte right after the
\* record id and, when the record has room, its last byte
UnsortedChannels(rec_id_size, record_length) ==
    IF record_length >= rec_id_size + 2
    THEN (0 :> [pos_byte_beg |-> rec_id_size, n_bytes |-> 1, endian |-> FALSE]) @@
         (1 :> [pos_byte_beg |-> record_length - 1, n_bytes |-> 1, endian |-> FALSE])
    ELSE (0 :> [pos_byte_beg |-> rec_id_size, n_bytes |-> 1, endian |-> FALSE])

\* number of records with id g among ids
RECURSIVE CountId(_, _)
CountId(ids, g) ==
    IF ids = <<>> THEN 0
    ELSE (IF Head(ids) = g THEN 1 ELSE 0) + CountId(Tail(ids), g)

\* length of the records with id g: the record id, pad bytes and g bytes
UnsortedRecordLength(rec_id_size, pad, g) == rec_id_size + pad + g

\* the data group: groups 1..n
UnsortedDg(rec_id_size, pad, n, ids) ==
    [dg_rec_id_size |-> rec_id_size,
     cg |-> [g \in 1..n |->
                [record_length |-> UnsortedRecordLength(rec_id_size, pad, g),
                 cg_cycle_count |-> CountId(ids, g),
                 cn |-> UnsortedChannels(rec_id_size,
                                         UnsortedRecordLength(rec_id_size, pad, g))]]]

\* the records of the data block, in file order: record id and length
BlockRecords(rec_id_size, pad, ids) ==
    [j \in DOMAIN ids |->
        [id |-> ids[j], len |-> UnsortedRecordLength(rec_id_size, pad, ids[j])]]

\* byte b (from 1) of the j-th record of the block, of id g: the record id,
\* little endian on rec_id_size bytes, then data bytes that depend on j
RecordByte(rec_id_size, g, j, b) ==
    IF b = 1 THEN g ELSE IF b <= rec_id_size THEN 0 ELSE (16 * j + (b - rec_id_size)) % 256

\* offset in the payload of the j-th record of the block
RECURSIVE RecordOffset(_, _)
RecordOffset(input, j) ==
    IF j = 1 THEN 0 ELSE RecordOffset(input, j - 1) + input[j - 1].len

\* length of the payload
InputLen(input) == RecordOffset(input, Len(input) + 1)

\* the record of the block that holds the payload byte at offset o,
\* searched from record j on
RECURSIVE RecordAt(_, _, _)
RecordAt(input, o, j) ==
    IF o < RecordOffset(input, j + 1) THEN j ELSE RecordAt(input, o, j + 1)

\* the payload byte at offset o
InputByte(rec_id_size, input, o) ==
    LET j == RecordAt(input, o, 1)
    IN  RecordByte(rec_id_size, input[j].id, j, o - RecordOffset(input, j) + 1)

\* v.len()
RECURSIVE VecLen(_)
VecLen(v) == IF v = <<>> THEN 0 ELSE Head(v).len + VecLen(Tail(v))

\* v[a..]
RECURSIVE VecFrom(_, _)
VecFrom(v, a) ==
    IF v = <<>> THEN <<>>
    ELSE IF a >= Head(v).len THEN VecFrom(Tail(v), a - Head(v).len)
    ELSE IF a = 0 THEN v
    ELSE <<[from |-> Head(v).from + a, len |-> Head(v).len - a]>> \o Tail(v)

\* v[..n]
RECURSIVE VecTake(_, _)
VecTake(v, n) ==
    IF n = 0 \/ v = <<>> THEN <<>>
    ELSE IF n >= Head(v).len THEN <<Head(v)>> \o VecTake(Tail(v), n - Head(v).len)
    ELSE <<[from |-> Head(v).from, len |-> n]>>

\* offset in the payload of v[o]
RECURSIVE VecOffset(_, _)
VecOffset(v, o) ==
    IF o < Head(v).len THEN Head(v).from + o ELSE VecOffset(Tail(v), o - Head(v).len)

\* the bytes of v, as a buffer indexed from 0
VecBuffer(rec_id_size, input, v) ==
    [o \in Nat |-> InputByte(rec_id_size, input, VecOffset(v, o))]

\* mutant of ExtendRecord: the record is put in front of the group's records
ExtendRecord_Front(record_data, record) == record \o record_data

\* data.extend(record) on the sorted bytes of a group
ExtendRecord(record_data, record) == record_data \o record

\* the while loop of read_all_channels_unsorted_from_bytes from position on;
\* hang tells that the loop does not end: a record id without channel group
\* leaves position and remaining as they are
RECURSIVE UnsortedLoop(_, _, _, _, _)
UnsortedLoop(input, data, d, rc, position) ==
    LET remaining == VecLen(data) - position
        dg_rec_id_size == d.dg_rec_id_size
        stop == [position |-> position, rc |-> rc, hang |-> FALSE]
    IN  IF remaining <= 0 THEN stop
        ELSE IF ~(dg_rec_id_size \in {1, 2, 4, 8} /\ remaining >= dg_rec_id_size)
        THEN stop   \* not enough data remaining
        ELSE LET rec_id == FromLeBytes(VecBuffer(dg_rec_id_size, input, data),
                                       position, dg_rec_id_size)
             IN  IF rec_id \in DOMAIN d.cg
                 THEN LET record_length == d.cg[rec_id].record_length
                          record == VecTake(VecFrom(data, position), record_length)
                      IN  IF remaining >= record_length
                          THEN UnsortedLoop(input, data, d,
                                   [rc EXCEPT ![rec_id].data = ExtendRecord(@, record)],
                                   position + record_length)
                          ELSE stop   \* not enough data remaining
                 ELSE [position |-> position, rc |-> rc, hang |-> TRUE]

\* read_all_channels_unsorted_from_bytes: the new content of data, of
\* record_counter and of the channel arrays, or hang
UnsortedFromBytes(input, data, d, rc, arrays) ==
    LET l == UnsortedLoop(input, data, d, rc, 0)
    IN  [hang |-> l.hang,
         data |-> VecFrom(data, l.position),
         rc |-> [g \in DOMAIN l.rc |->
                    IF g \in DOMAIN d.cg THEN [l.rc[g] EXCEPT !.data = <<>>] ELSE l.rc[g]],
         arrays |-> [g \in DOMAIN arrays |->
                    IF g \in DOMAIN l.rc
                    THEN Reader4ReadChannelsFromBytes(
                             VecBuffer(d.dg_rec_id_size, input, l.rc[g].data), 0,
                             VecLen(l.rc[g].data), d.cg[g].cn, arrays[g],
                             d.cg[g].record_length, l.rc[g].index)
                    ELSE arrays[g]]]

\* record_counter with an entry (0, empty Vec) for every group
RecordCounterInit(d) == [g \in DOMAIN d.cg |-> [index |-> 0, data |-> <<>>]]

\* initialise_arrays of every channel group of the data group
UnsortedInitialiseArrays(d) ==
    [g \in DOMAIN d.cg |-> InitialiseArrays(d.cg[g].cn, d.cg[g].cg_cycle_count)]

\* sum of the payload lengths of the first n data blocks of a data list
RECURSIVE DlOffset(_, _)
DlOffset(blocks, n) == IF n = 0 THEN 0 ELSE DlOffset(blocks, n - 1) + blocks[n]

\* the ways a payload of total bytes is spread over the data blocks of a data
\* list: one block, or two blocks cut anywhere
DataListCuts(total) ==
    {<<total>>} \cup {<<cut, total - cut>> : cut \in 1..(total - 1)}

\* a data group of 2..MaxGroups groups and a block of records whose ids are
\* those of the groups or the next, unknown, one.  A ##DT or ##DZ block has
\* small records or records of more than a quarter of CHUNK_SIZE_READING; the
\* blocks of a data list (##DL) have small records
UnsortedInit ==
    /\ un_block_id \in {"##DT", "##DZ", "##DL"}
    /\ \E n \in 2..MaxGroups, z \in {1, 2}, len \in 1..MaxUnsortedRecords :
          \E ids \in [1..len -> 1..(n + 1)] :
             \E pad \in IF un_block_id = "##DL" THEN {0} ELSE {0, LargeRecordPad} :
                /\ un_ids = ids
                /\ un_dg = UnsortedDg(z, pad, n, ids)
                /\ un_input = BlockRecords(z, pad, ids)
    /\ un_data_blocks \in IF un_block_id = "##DL" THEN DataListCuts(InputLen(un_input))
                          ELSE {<<InputLen(un_input)>>}
    /\ un_next = 0
    /\ un_data = <<>>
    /\ record_counter = <<>>
    /\ un_cn_data = <<>>
    /\ un_position = 0
    /\ pc_unsorted = "start"

UnsortedIdle ==
    /\ un_block_id = "none"
    /\ un_dg = [dg_rec_id_size |-> 0, cg |-> <<>>]
    /\ un_ids = <<>>
    /\ un_input = <<>>
    /\ un_data_blocks = <<>>
    /\ un_next = 0
    /\ un_data = <<>>
    /\ record_counter = <<>>
    /\ un_cn_data = <<>>
    /\ un_position = 0
    /\ pc_unsorted = "idle"

\* read_data, "##DZ" branch with several channel groups: the whole
\* decompressed block goes through read_all_channels_unsorted_from_bytes
ReadDataUnsortedDZ ==
    /\ pc_unsorted = "start"
    /\ un_block_id = "##DZ"
    /\ LET data == <<[from |-> 0, len |-> InputLen(un_input)]>>
           r == UnsortedFromBytes(un_input, data, un_dg, RecordCounterInit(un_dg),
                                  UnsortedInitialiseArrays(un_dg))
       IN  /\ un_data' = r.data
           /\ record_counter' = r.rc
           /\ un_cn_data' = r.arrays
           /\ pc_unsorted' = IF r.hang THEN "hang" ELSE "done"
    /\ UNCHANGED <<un_block_id, un_dg, un_ids, un_input, un_data_blocks, un_next,
                   un_position>>
    /\ UNCHANGED <<infoVars, sortedVars, decodeVars, namesVars, layoutVars, convVars, commentVars, mdVars, initVars, matVars, dlVars, chainVars, nilVars, maskVars, wideVars, posVars, tableVars, mdfVars, parVars>>

\* read_data, "##DT" branch with several channel groups, up to the chunk
\* loop of read_all_channels_unsorted
ReadDataUnsortedDT ==
    /\ pc_unsorted = "start"
    /\ un_block_id = "##DT"
    /\ un_cn_data' = UnsortedInitialiseArrays(un_dg)
    /\ record_counter' = RecordCounterInit(un_dg)
    /\ un_position' = 24
    /\ pc_unsorted' = "chunks"
    /\ UNCHANGED <<un_block_id, un_dg, un_ids, un_input, un_data_blocks, un_next, un_data>>
    /\ UNCHANGED <<infoVars, sortedVars, decodeVars, namesVars, layoutVars, convVars, commentVars, mdVars, initVars, matVars, dlVars, chainVars, nilVars, maskVars, wideVars, posVars, tableVars, mdfVars, parVars>>

\* one iteration of the while loop of read_all_channels_unsorted: a new
\* data_chunk is read from the file and demultiplexed
ReadUnsortedChunk ==
    /\ pc_unsorted = "chunks"
    /\ LET data_block_length == 24 + InputLen(un_input)
           size == IF data_block_length - un_position > CHUNK_SIZE_READING
                   THEN CHUNK_SIZE_READING
                   ELSE data_block_length - un_position
           data_chunk == <<[from |-> un_position - 24, len |-> size]>>
           r == UnsortedFromBytes(un_input, data_chunk, un_dg, record_counter, un_cn_data)
       IN  /\ un_position < data_block_length
           /\ un_position' = un_position + size
           /\ un_data' = r.data
           /\ record_counter' = r.rc
           /\ un_cn_data' = r.arrays
           /\ pc_unsorted' = IF r.hang THEN "hang" ELSE "chunks"
    /\ UNCHANGED <<un_block_id, un_dg, un_ids, un_input, un_data_blocks, un_next>>
    /\ UNCHANGED <<infoVars, sortedVars, decodeVars, namesVars, layoutVars, convVars, commentVars, mdVars, initVars, matVars, dlVars, chainVars, nilVars, maskVars, wideVars, posVars, tableVars, mdfVars, parVars>>

\* the while loop of read_all_channels_unsorted is over
EndReadUnsorted ==
    /\ pc_unsorted = "chunks"
    /\ un_position >= 24 + InputLen(un_input)
    /\ pc_unsorted' = "done"
    /\ UNCHANGED <<un_block_id, un_dg, un_ids, un_input, un_data_blocks, un_next, un_data,
                   record_counter, un_cn_data, un_position>>
    /\ UNCHANGED <<infoVars, sortedVars, decodeVars, namesVars, layoutVars, convVars, commentVars, mdVars, initVars, matVars, dlVars, chainVars, nilVars, maskVars, wideVars, posVars, tableVars, mdfVars, parVars>>

\* read_data, "##DL" branch with several channel groups, and parser_dl4_unsorted
\* up to its loop over the data blocks
ReadDataUnsortedDL ==
    /\ pc_unsorted = "start"
    /\ un_block_id = "##DL"
    /\ un_cn_data' = UnsortedInitialiseArrays(un_dg)
    /\ record_counter' = RecordCounterInit(un_dg)
    /\ un_data' = <<>>
    /\ pc_unsorted' = "blocks"
    /\ UNCHANGED <<un_block_id, un_dg, un_ids, un_input, un_data_blocks, un_next,
                   un_position>>
    /\ UNCHANGED <<infoVars, sortedVars, decodeVars, namesVars, layoutVars, convVars, commentVars, mdVars, initVars, matVars, dlVars, chainVars, nilVars, maskVars, wideVars, posVars, tableVars, mdfVars, parVars>>

\* one data block of the list in parser_dl4_unsorted: its payload is appended
\* to data, which is demultiplexed
ParserDl4UnsortedBlock ==
    /\ pc_unsorted = "blocks"
    /\ un_next < Len(un_data_blocks)
    /\ LET buf == <<[from |-> DlOffset(un_data_blocks, un_next),
                     len |-> un_data_blocks[un_next + 1]]>>
           r == UnsortedFromBytes(un_input, un_data \o buf, un_dg, record_counter,
                                  un_cn_data)
       IN  /\ un_data' = r.data
           /\ record_counter' = r.rc
           /\ un_cn_data' = r.arrays
           /\ pc_unsorted' = IF r.hang THEN "hang" ELSE "blocks"
    /\ un_next' = un_next + 1
    /\ UNCHANGED <<un_block_id, un_dg, un_ids, un_input, un_data_blocks, un_position>>
    /\ UNCHANGED <<infoVars, sortedVars, decodeVars, namesVars, layoutVars, convVars, commentVars, mdVars, initVars, matVars, dlVars, chainVars, nilVars, maskVars, wideVars, posVars, tableVars, mdfVars, parVars>>

\* the loop of parser_dl4_unsorted over the data blocks is over
ParserDl4UnsortedEnd ==
    /\ pc_unsorted = "blocks"
    /\ un_next = Len(un_data_blocks)
    /\ pc_unsorted' = "done"
    /\ UNCHANGED <<un_block_id, un_dg, un_ids, un_input, un_data_blocks, un_next, un_data,
                   record_counter, un_cn_data, un_position>>
    /\ UNCHANGED <<infoVars, sortedVars, decodeVars, namesVars, layoutVars, convVars, commentVars, mdVars, initVars, matVars, dlVars, chainVars, nilVars, maskVars, wideVars, posVars, tableVars, mdfVars, parVars>>

(***************************************************************************)
(* Version 3 channel names: parse_ce, build_channel_db3 and                *)
(* MdfInfo3::get_channel_master of mdfinfo3.rs.                            *)
(***************************************************************************)
\* name, channel extension and type of a CN block: data channels "a" with
\* no extension, a DIM one (2) or a CAN one (19), a data channel "b", and
\* master channels (cn_type 1) "a" and "t"
ChannelKinds ==
    [name : {"a"}, ce_extension_type : {0, 2, 19}, cn_type : {0}] \cup
    [name : {"b"}, ce_extension_type : {0}, cn_type : {0}] \cup
    [name : {"a", "t"}, ce_extension_type : {0}, cn_type : {1}]

\* the channel group of each of n channels met in file order: a channel
\* stays in the group of the one before it or opens the next group
Groupings(n) ==
    {g \in [1..n -> 1..n] :
        /\ g[1] = 1
        /\ \A k \in 1..(n - 1) : g[k + 1] \in {g[k], g[k] + 1}}

\* the CN blocks as parse_dg3, parse_cg3 and parse_cn3 store them: keyed by
\* data group position, record id and channel position; two channel groups
\* per data group
Cn3Blocks(n, g, kinds) ==
    [k \in 1..n |->
        [dg_position |-> 5000 + 1000 * ((g[k] + 1) \div 2),
         cg_block_position |-> 1000 + 100 * g[k],
         record_id |-> g[k],
         cn_position |-> 100 + 10 * k,
         name |-> kinds[k].name,
         ce_extension_type |-> kinds[k].ce_extension_type,
         cn_type |-> kinds[k].cn_type]]

\* ce_extension of the block parse_ce stores: ce_ecu_id and ce_message_name
\* are decoded from newly allocated zeroed buffers and trimmed of their
\* trailing zeros
ParseCe(ce_extension_type) ==
    IF ce_extension_type = 2 THEN [kind |-> "DIM", ce_ecu_id |-> ""]
    ELSE IF ce_extension_type = 19 THEN [kind |-> "CAN", ce_message_name |-> ""]
    ELSE [kind |-> "None"]

\* orders in which the nested iter_mut() of the HashMaps of data groups,
\* channel groups and channels may visit the channels: any order that ends a
\* channel group, and a data group, before it enters another
IterationOrders(cns) ==
    {o \in Permutations(DOMAIN cns) :
        \A i, j, k \in DOMAIN cns :
            (i < j /\ j < k) =>
                /\ cns[o[i]].dg_position = cns[o[k]].dg_position
                      => cns[o[j]].dg_position = cns[o[i]].dg_position
                /\ cns[o[i]].cg_block_position = cns[o[k]].cg_block_position
                      => cns[o[j]].cg_block_position = cns[o[i]].cg_block_position}

\* what build_channel_db3 appends to a name already in channel_list
UniqueSuffix(c) ==
    LET ce == ParseCe(c.ce_extension_type)
    IN  IF ce.kind = "DIM" THEN " " \o ce.ce_ecu_id
        ELSE IF ce.kind = "CAN" THEN " " \o ce.ce_message_name
        ELSE " " \o ToString(c.cn_position)

\* first loop of build_channel_db3 from the i-th visited channel on:
\* names is cn.unique_name by channel, list is channel_list and masters is
\* master_channel_list
RECURSIVE UniqueNamesLoop(_, _, _, _, _, _)
UniqueNamesLoop(cns, o, i, names, list, masters) ==
    IF i > Len(o) THEN [names |-> names, list |-> list, masters |-> masters]
    ELSE LET k == o[i]
             c == cns[k]
             name == IF names[k] \in DOMAIN list
                     THEN names[k] \o UniqueSuffix(c)
                     ELSE names[k]
             entry == [master |-> "", dg_position |-> c.dg_position,
                       cg |-> <<c.cg_block_position, c.record_id>>,
                       cn_position |-> c.cn_position]
         IN  UniqueNamesLoop(cns, o, i + 1,
                 [names EXCEPT ![k] = name],
                 (name :> entry) @@ list,
                 IF c.cn_type # 0
                 THEN (c.cg_block_position :> name) @@ masters
                 ELSE masters)

\* mutant of DefaultMasterName: the group's block position is left out
DefaultMasterName_Bare(block_position) == "master_"

\* default name in case no master is existing
DefaultMasterName(block_position) == "master_" \o ToString(block_position)

\* master_channel_name the second loop of build_channel_db3 gives a group
MasterChannelName(masters, block_position) ==
    IF block_position \in DOMAIN masters
    THEN masters[block_position]
    ELSE DefaultMasterName(block_position)

\* second loop of build_channel_db3 from the i-th visited channel on: the
\* master name of the group of the channel is set in its channel_list entry
RECURSIVE MasterLoop(_, _, _, _, _, _)
MasterLoop(cns, o, i, names, list, masters) ==
    IF i > Len(o) THEN list
    ELSE LET k == o[i]
             m == MasterChannelName(masters, cns[k].cg_block_position)
         IN  MasterLoop(cns, o, i + 1, names,
                 IF names[k] \in DOMAIN list
                 THEN [list EXCEPT ![names[k]].master = m]
                 ELSE list,
                 masters)

\* build_channel_db3 when the HashMaps are iterated in order o
BuildChannelDb3(cns, o) ==
    LET first == UniqueNamesLoop(cns, o, 1, [k \in DOMAIN cns |-> cns[k].name],
                                 <<>>, <<>>)
    IN  [unique_name |-> first.names,
         channel_names_set |-> MasterLoop(cns, o, 1, first.names, first.list,
                                          first.masters),
         master_channel_name |->
             [p \in {cns[k].cg_block_position : k \in DOMAIN cns} |->
                 MasterChannelName(first.masters, p)]]

NamesInit ==
    /\ \E n \in 1..MaxChannels :
          \E g \in Groupings(n), kinds \in [1..n -> ChannelKinds] :
              cn3 = Cn3Blocks(n, g, kinds)
    /\ unique_name = <<>>
    /\ channel_names_set = <<>>
    /\ master_channel_name = <<>>
    /\ runs_unique_name = <<>>
    /\ master_query = ""
    /\ master = ""

NamesIdle ==
    /\ cn3 = <<>>
    /\ unique_name = <<>>
    /\ channel_names_set = <<>>
    /\ master_channel_name = <<>>
    /\ runs_unique_name = <<>>
    /\ master_query = ""
    /\ master = ""

\* files whose channels have no channel extension and are data channels
RerunInit ==
    /\ NamesInit
    /\ \A k \in DOMAIN cn3 : cn3[k].ce_extension_type = 0 /\ cn3[k].cn_type = 0

\* the version 3 branch of MdfInfo::new on the file: the blocks are parsed,
\* every unique_name starting as the channel's name, and build_channel_db3
\* makes the names unique and fills channel_names_set
MdfInfoNew3 ==
    /\ \E o \in IterationOrders(cn3) :
          LET db == BuildChannelDb3(cn3, o)
          IN  /\ unique_name' = db.unique_name
              /\ channel_names_set' = db.channel_names_set
              /\ master_channel_name' = db.master_channel_name
              /\ runs_unique_name' = Append(runs_unique_name, db.unique_name)
    /\ master_query' = ""
    /\ master' = ""
    /\ UNCHANGED cn3
    /\ UNCHANGED <<infoVars, sortedVars, decodeVars, unsortedVars, layoutVars, convVars, commentVars, mdVars, initVars, matVars, dlVars, chainVars, nilVars, maskVars, wideVars, posVars, tableVars, mdfVars, parVars>>

\* the info phase on a file
InfoPhase3 ==
    /\ cn3 # <<>>
    /\ runs_unique_name = <<>>
    /\ MdfInfoNew3

\* the info phase again on the same file
InfoPhase3Again ==
    /\ Len(runs_unique_name) = 1
    /\ MdfInfoNew3

\* MdfInfo3::get_channel_master for a name of channel_names_set or for a
\* name that is not in it
GetChannelMaster ==
    /\ Len(runs_unique_name) >= 1
    /\ \E channel_name \in DOMAIN channel_names_set \cup {"none"} :
          /\ master_query' = channel_name
          /\ master' = IF channel_name \in DOMAIN channel_names_set
                       THEN channel_names_set[channel_name].master
                       ELSE ""
    /\ UNCHANGED <<cn3, unique_name, channel_names_set, master_channel_name,
                   runs_unique_name>>
    /\ UNCHANGED <<infoVars, sortedVars, decodeVars, unsortedVars, layoutVars, convVars, commentVars, mdVars, initVars, matVars, dlVars, chainVars, nilVars, maskVars, wideVars, posVars, tableVars, mdfVars, parVars>>

(***************************************************************************)
(* Byte layout of a version 3 channel: parse_cn3_block of mdfinfo3.rs.     *)
(***************************************************************************)
NoLayout == [pos_byte_beg |-> 0 - 1, n_bytes |-> 0 - 1]

\* pos_byte_beg of parse_cn3_block, a u16
PosByteBeg(cn_bit_offset, id_size) == (cn_bit_offset \div 8 + id_size) % 65536

\* n_bytes of parse_cn3_block
NBytes(cn_bit_count) ==
    IF cn_bit_count % 8 # 0 THEN cn_bit_count \div 8 + 1 ELSE cn_bit_count \div 8

LayoutInit ==
    /\ cn_block2 \in [cn_bit_offset : 0..MaxBitOffset, cn_bit_count : 1..MaxBitCount]
    /\ record_id_size \in 0..2
    /\ cn_layout = NoLayout

LayoutIdle ==
    /\ cn_block2 = [cn_bit_offset |-> 0, cn_bit_count |-> 0]
    /\ record_id_size = 0
    /\ cn_layout = NoLayout

\* parse_cn3_block: the layout fields of the Cn3 it returns
ParseCn3Block ==
    /\ cn_block2.cn_bit_count > 0
    /\ cn_layout = NoLayout
    /\ cn_layout' = [pos_byte_beg |-> PosByteBeg(cn_block2.cn_bit_offset, record_id_size),
                     n_bytes |-> NBytes(cn_block2.cn_bit_count)]
    /\ UNCHANGED <<cn_block2, record_id_size>>
    /\ UNCHANGED <<infoVars, sortedVars, decodeVars, unsortedVars, namesVars, convVars, commentVars, mdVars, initVars, matVars, dlVars, chainVars, nilVars, maskVars, wideVars, posVars, tableVars, mdfVars, parVars>>

(***************************************************************************)
(* linear_conversion of mdfreader4.rs.  An f64 is the exact number         *)
(* half / 2 + tiny * 1e-13, written [half, tiny]; tiny stays far below     *)
(* the size of one half.  Raw values are whole numbers.                    *)
(***************************************************************************)
F64(half, tiny) == [half |-> half, tiny |-> tiny]

\* *a as f64 of an integer element
AsF64(a) == F64(2 * a, 0)

\* x * p for a whole number x
F64Mul(x, p) == F64((x.half \div 2) * p.half, (x.half \div 2) * p.tiny)

F64Add(x, y) == F64(x.half + y.half, x.tiny + y.tiny)

F64Sub(x, y) == F64(x.half - y.half, x.tiny - y.tiny)

F64Less(x, y) == x.half < y.half \/ (x.half = y.half /\ x.tiny < y.tiny)

\* the coefficients a conversion block may hold: multiples of 0.5 from -0.5
\* on, exact or off by 5e-13 or 2e-12
Coefficients == [half : (0 - 1)..MaxCoefHalf, tiny : {0 - 20, 0 - 5, 0, 5, 20}]

\* the ChannelData variants of the model and the raw whole numbers they hold
ConvKinds == {"UInt8", "Int16", "Float64", "Complex16", "StringSBC"}

RealKinds == {"UInt8", "Int16", "Float64"}

RawValues(kind) == IF kind = "UInt8" THEN {0, 3} ELSE {0 - 2, 3}

\* cn.data of a variant holding the raw whole numbers raw
ChannelDataOf(kind, raw) ==
    [kind |-> kind,
     a |-> IF kind = "Float64" THEN [i \in DOMAIN raw |-> AsF64(raw[i])] ELSE raw]

\* what is left of a call that ran into todo!()
ConvPanicked == [kind |-> "panic", a |-> <<>>]

\* variants whose elements the conversions cast with "as f64"
CastKinds == {"UInt8", "Int8", "Int16", "UInt16", "Float16", "Int24", "UInt24",
              "Int32", "UInt32", "Float32", "Int48", "UInt48", "Int64", "UInt64"}

ComplexKinds == {"Complex16", "Complex32", "Complex64"}

\* the test that lets linear_conversion convert
NotIdentity(p1, p2) ==
    ~(p1 = F64(0, 0) /\ F64Less(F64Sub(p2, F64(2, 0)), F64(0, 10)))

\* linear_conversion: the new cn.data, or ConvPanicked for the arms left
\* todo!()
LinearConversion(data, p1, p2) ==
    IF NotIdentity(p1, p2)
    THEN IF data.kind \in CastKinds
         THEN [kind |-> "Float64",
               a |-> [i \in DOMAIN data.a |-> F64Add(F64Mul(AsF64(data.a[i]), p2), p1)]]
         ELSE IF data.kind = "Float64"
         THEN [kind |-> "Float64",
               a |-> [i \in DOMAIN data.a |-> F64Add(F64Mul(data.a[i], p2), p1)]]
         ELSE IF data.kind \in ComplexKinds THEN ConvPanicked
         ELSE data
    ELSE data

ConvInit ==
    /\ \E kind \in ConvKinds, n \in 1..MaxConvCycles :
          \E raw \in [1..n -> RawValues(kind)] :
              /\ raw_data = [kind |-> kind, raw |-> raw]
              /\ conv_cn = [data |-> ChannelDataOf(kind, raw)]
    /\ cc_val \in [0..1 -> Coefficients]
    /\ pc_conv = "raw"

ConvIdle ==
    /\ raw_data = [kind |-> "none", raw |-> <<>>]
    /\ conv_cn = [data |-> [kind |-> "none", a |-> <<>>]]
    /\ cc_val = <<>>
    /\ pc_conv = "idle"

\* convert_all_channels on a channel whose conversion block has cc_type 1
ConvertLinear ==
    /\ pc_conv = "raw"
    /\ LET data == LinearConversion(conv_cn.data, cc_val[0], cc_val[1])
       IN  IF data.kind = "panic"
           THEN /\ pc_conv' = "panic"
                /\ UNCHANGED conv_cn
           ELSE /\ pc_conv' = "converted"
                /\ conv_cn' = [conv_cn EXCEPT !.data = data]
    /\ UNCHANGED <<raw_data, cc_val>>
    /\ UNCHANGED <<infoVars, sortedVars, decodeVars, unsortedVars, namesVars, layoutVars, commentVars, mdVars, initVars, matVars, dlVars, chainVars, nilVars, maskVars, wideVars, posVars, tableVars, mdfVars, parVars>>

(***************************************************************************)
(* rational_conversion of mdfreader4.rs.  Coefficients and raw values are  *)
(* whole numbers; the f64 quotient of two whole numbers is kept as the     *)
(* pair [num, den].                                                        *)
(***************************************************************************)
\* the whole number an f64 [half, tiny] stands for
Whole(x) == x.half \div 2

\* numerator and denominator of the quotient the numeric arms compute
RationalValue(m, p) ==
    [num |-> (m * m) * Whole(p[0]) + m * Whole(p[1]) + Whole(p[2]),
     den |-> (m * m) * Whole(p[3]) + m * Whole(p[4]) + Whole(p[5])]

\* the quotient the Float64 arm computes
RationalValueFloat64(a, p) ==
    [num |-> (Whole(a) * Whole(a)) * Whole(p[0]) + Whole(a) * Whole(p[1]) + Whole(p[0]),
     den |-> (Whole(a) * Whole(a)) * Whole(p[3]) + Whole(a) * Whole(p[4]) + Whole(p[5])]

\* rational_conversion: the new cn.data, or ConvPanicked for the arms left
\* todo!()
RationalConversion(data, p) ==
    IF data.kind \in CastKinds
    THEN [kind |-> "Float64",
          a |-> [i \in DOMAIN data.a |-> RationalValue(data.a[i], p)]]
    ELSE IF data.kind = "Float64"
    THEN [kind |-> "Float64",
          a |-> [i \in DOMAIN data.a |-> RationalValueFloat64(data.a[i], p)]]
    ELSE IF data.kind \in ComplexKinds THEN ConvPanicked
    ELSE data

RationalInit ==
    /\ \E kind \in ConvKinds, n \in 1..MaxConvCycles :
          \E raw \in [1..n -> RawValues(kind)] :
              /\ raw_data = [kind |-> kind, raw |-> raw]
              /\ conv_cn = [data |-> ChannelDataOf(kind, raw)]
    /\ cc_val \in [0..5 -> {F64(2 * c, 0) : c \in 0..MaxRatCoef}]
    /\ pc_conv = "raw"

\* convert_all_channels on a channel whose conversion block has cc_type 2
ConvertRational ==
    /\ pc_conv = "raw"
    /\ LET data == RationalConversion(conv_cn.data, cc_val)
       IN  IF data.kind = "panic"
           THEN /\ pc_conv' = "panic"
                /\ UNCHANGED conv_cn
           ELSE /\ pc_conv' = "converted"
                /\ conv_cn' = [conv_cn EXCEPT !.data = data]
    /\ UNCHANGED <<raw_data, cc_val>>
    /\ UNCHANGED <<infoVars, sortedVars, decodeVars, unsortedVars, namesVars, layoutVars, commentVars, mdVars, initVars, matVars, dlVars, chainVars, nilVars, maskVars, wideVars, posVars, tableVars, mdfVars, parVars>>

(***************************************************************************)
(* Comment blocks of a version 4 file: hd4_comment_parser and              *)
(* parse_fh_comment of mdfinfo4.rs.  The text of a block is kept as what   *)
(* roxmltree makes of it: not well formed, or a list of element nodes.     *)
(***************************************************************************)
\* element nodes: tag name, name attribute ("" when it has none) and text
XmlElements ==
    {[tag |-> "e", name |-> "author", text |-> "x"],
     [tag |-> "e", name |-> "", text |-> "y"],
     [tag |-> "tool_id", name |-> "", text |-> "z"]}

\* texts of a comment block
CommentTexts ==
    {[well_formed |-> FALSE, nodes |-> <<>>]} \cup
    {[well_formed |-> TRUE, nodes |-> n] :
        n \in UNION {[1..l -> XmlElements] : l \in 0..MaxXmlNodes}}

\* the block a comment link points to
CommentBlocks ==
    {[hdr_id |-> "nil", comment |-> [well_formed |-> FALSE, nodes |-> <<>>]]} \cup
    [hdr_id : {"##TX", "##MD"}, comment : CommentTexts]

\* roxmltree::Document::parse
DocumentParse(comment) ==
    IF comment.well_formed THEN [ok |-> TRUE, nodes |-> comment.nodes]
    ELSE [ok |-> FALSE, nodes |-> <<>>]

\* the loop of hd4_comment_parser over the nodes i.. of tag "e": name
\* attribute and text are inserted
RECURSIVE HdNodes(_, _, _)
HdNodes(nodes, i, comments) ==
    IF i > Len(nodes) THEN comments
    ELSE HdNodes(nodes, i + 1,
             IF nodes[i].tag = "e" /\ nodes[i].name # ""
             THEN (nodes[i].name :> nodes[i].text) @@ comments
             ELSE comments)

\* hd4_comment_parser: the comments, or panicked when expect() fails
Hd4CommentParser(block) ==
    IF block.hdr_id = "nil" THEN [panicked |-> FALSE, comments |-> <<>>]
    ELSE IF block.hdr_id = "##TX"
    THEN [panicked |-> FALSE, comments |-> ("comment" :> block.comment)]
    ELSE LET md == DocumentParse(block.comment)
         IN  IF md.ok
             THEN [panicked |-> FALSE, comments |-> HdNodes(md.nodes, 1, <<>>)]
             ELSE [panicked |-> TRUE, comments |-> <<>>]

\* parse_fh_comment: both arms of the match on the parsed document end with
\* comments = HashMap::new()
ParseFhComment(block) ==
    IF block.hdr_id = "nil" THEN <<>>
    ELSE IF block.hdr_id = "##TX" THEN ("comment" :> block.comment)
    ELSE <<>>

CommentInit ==
    /\ hd_md_block \in CommentBlocks
    /\ fh_md_block \in CommentBlocks
    /\ hd_comment = <<>>
    /\ fh_comment = <<>>
    /\ pc_comment = "hd"

CommentIdle ==
    /\ hd_md_block = [hdr_id |-> "nil", comment |-> [well_formed |-> FALSE, nodes |-> <<>>]]
    /\ fh_md_block = [hdr_id |-> "nil", comment |-> [well_formed |-> FALSE, nodes |-> <<>>]]
    /\ hd_comment = <<>>
    /\ fh_comment = <<>>
    /\ pc_comment = "idle"

\* the info phase reads the header comment
ReadHdComment ==
    /\ pc_comment = "hd"
    /\ LET r == Hd4CommentParser(hd_md_block)
       IN  /\ hd_comment' = r.comments
           /\ pc_comment' = IF r.panicked THEN "panic" ELSE "fh"
    /\ UNCHANGED <<hd_md_block, fh_md_block, fh_comment>>
    /\ UNCHANGED <<infoVars, sortedVars, decodeVars, unsortedVars, namesVars, layoutVars, convVars, mdVars, initVars, matVars, dlVars, chainVars, nilVars, maskVars, wideVars, posVars, tableVars, mdfVars, parVars>>

\* the info phase reads the file history comment and goes on to the next
\* block
ReadFhComment ==
    /\ pc_comment = "fh"
    /\ fh_comment' = ParseFhComment(fh_md_block)
    /\ pc_comment' = "next"
    /\ UNCHANGED <<hd_md_block, fh_md_block, hd_comment>>
    /\ UNCHANGED <<infoVars, sortedVars, decodeVars, unsortedVars, namesVars, layoutVars, convVars, mdVars, initVars, matVars, dlVars, chainVars, nilVars, maskVars, wideVars, posVars, tableVars, mdfVars, parVars>>

(***************************************************************************)
(* Reading the text of a block: parse_md of mdfinfo4.rs (Read::read) and   *)
(* parse_tx of mdfinfo3.rs (Read::read_exact).                             *)
(***************************************************************************)
\* size of the block header before the text
HeaderSize(v) == IF v = 4 THEN 24 ELSE 4

\* vec![0; n]
Zeros(n) == [i \in 1..n |-> 0]

\* trim_end_matches(char::from(0))
RECURSIVE TrimEndZeros(_)
TrimEndZeros(bytes) ==
    IF bytes # <<>> /\ bytes[Len(bytes)] = 0
    THEN TrimEndZeros(SubSeq(bytes, 1, Len(bytes) - 1))
    ELSE bytes

\* numbers of bytes Read::read may put in a buffer of len bytes when the
\* file has avail bytes left: any number up to both, none only at the end
\* of the file or for an empty buffer
ReadCounts(len, avail) ==
    LET most == IF len < avail THEN len ELSE avail
    IN  IF most = 0 THEN {0} ELSE 1..most

\* comment_raw after rdr.read(&mut comment_raw) obtained n bytes
ReadInto(len, file, n) == SubSeq(file, 1, n) \o Zeros(len - n)

MdInit ==
    /\ md_version \in {3, 4}
    /\ \E l \in 1..MaxMdLen : md_hdr_len = HeaderSize(md_version) + l
    /\ md_file \in UNION {[1..a -> {0, 65, 66}] : a \in 0..MaxMdLen}
    /\ md_n_read = 0
    /\ md_comment = <<>>
    /\ pc_md = "start"

MdIdle ==
    /\ md_version = 0
    /\ md_hdr_len = 0
    /\ md_file = <<>>
    /\ md_n_read = 0
    /\ md_comment = <<>>
    /\ pc_md = "idle"

\* parse_md: the result of read() is only unwrapped
ParseMd ==
    /\ pc_md = "start"
    /\ md_version = 4
    /\ \E n \in ReadCounts(md_hdr_len - 24, Len(md_file)) :
          /\ md_n_read' = n
          /\ md_comment' = TrimEndZeros(ReadInto(md_hdr_len - 24, md_file, n))
    /\ pc_md' = "returned"
    /\ UNCHANGED <<md_version, md_hdr_len, md_file>>
    /\ UNCHANGED <<infoVars, sortedVars, decodeVars, unsortedVars, namesVars, layoutVars, convVars, commentVars, initVars, matVars, dlVars, chainVars, nilVars, maskVars, wideVars, posVars, tableVars, mdfVars, parVars>>

\* parse_tx: read_exact().unwrap() panics when the file ends before the
\* buffer is full
ParseTx ==
    /\ pc_md = "start"
    /\ md_version = 3
    /\ IF Len(md_file) >= md_hdr_len - 4
       THEN /\ md_n_read' = md_hdr_len - 4
            /\ md_comment' = TrimEndZeros(SubSeq(md_file, 1, md_hdr_len - 4))
            /\ pc_md' = "returned"
       ELSE /\ md_n_read' = Len(md_file)
            /\ pc_md' = "panic"
            /\ UNCHANGED md_comment
    /\ UNCHANGED <<md_version, md_hdr_len, md_file>>
    /\ UNCHANGED <<infoVars, sortedVars, decodeVars, unsortedVars, namesVars, layoutVars, convVars, commentVars, initVars, matVars, dlVars, chainVars, nilVars, maskVars, wideVars, posVars, tableVars, mdfVars, parVars>>

(***************************************************************************)
(* data_init of mdfreader4.rs and the linear conversion of the array it    *)
(* makes.                                                                  *)
(***************************************************************************)
\* an array of cycle_count times the element zero
ZeroArray(kind, zero, cycle_count) ==
    [kind |-> kind, a |-> [i \in 1..cycle_count |-> zero]]

\* the variant data_init picks in its first branch
ZeroedData(cn_data_type, n_bytes, cycle_count) ==
    IF cn_data_type \in {0, 1}
    THEN ZeroArray(IF n_bytes <= 1 THEN "UInt8" ELSE IF n_bytes = 2 THEN "UInt16"
                   ELSE IF n_bytes = 3 THEN "UInt24" ELSE IF n_bytes = 4 THEN "UInt32"
                   ELSE IF n_bytes <= 6 THEN "UInt48" ELSE "UInt64", 0, cycle_count)
    ELSE IF cn_data_type \in {2, 3}
    THEN ZeroArray(IF n_bytes <= 1 THEN "Int8" ELSE IF n_bytes = 2 THEN "Int16"
                   ELSE IF n_bytes = 3 THEN "Int24" ELSE IF n_bytes = 4 THEN "Int32"
                   ELSE IF n_bytes <= 6 THEN "Int48" ELSE "Int64", 0, cycle_count)
    ELSE IF cn_data_type \in {4, 5}
    THEN IF n_bytes <= 2 THEN ZeroArray("Float16", 0, cycle_count)
         ELSE IF n_bytes <= 4 THEN ZeroArray("Float32", 0, cycle_count)
         ELSE ZeroArray("Float64", F64(0, 0), cycle_count)
    ELSE IF cn_data_type \in {15, 16}
    THEN ZeroArray(IF n_bytes <= 2 THEN "Complex16" ELSE IF n_bytes <= 4 THEN "Complex32"
                   ELSE "Complex64", <<0, 0>>, cycle_count)
    ELSE IF cn_data_type = 6 THEN ZeroArray("StringSBC", "", cycle_count)
    ELSE IF cn_data_type = 7 THEN ZeroArray("StringUTF8", "", cycle_count)
    ELSE IF cn_data_type \in {8, 9} THEN ZeroArray("StringUTF16", "", cycle_count)
    ELSE ZeroArray("ByteArray", 0, n_bytes * cycle_count)

\* data_init: its test cn_type != 3 || cn_type != 6 selects the first branch
DataInit(cn_type, cn_data_type, n_bytes, cycle_count) ==
    IF cn_type # 3 \/ cn_type # 6
    THEN ZeroedData(cn_data_type, n_bytes, cycle_count)
    ELSE [kind |-> "UInt64", a |-> [i \in 1..cycle_count |-> i - 1]]

DataInitInit ==
    /\ \E cn_type \in {0, 2, 3, 6}, cn_data_type \in {0, 2, 4, 6, 10, 15},
          n_bytes \in 0..MaxInitBytes :
          init_cn = [cn_type |-> cn_type, cn_data_type |-> cn_data_type,
                     n_bytes |-> n_bytes, data |-> [kind |-> "none", a |-> <<>>]]
    /\ init_cycle_count \in 0..MaxInitCycles
    /\ init_cc_val \in [0..1 -> {F64(0, 0), F64(2, 0), F64(3, 0)}]
    /\ pc_init = "start"

DataInitIdle ==
    /\ init_cn = [cn_type |-> 0, cn_data_type |-> 0, n_bytes |-> 0,
                  data |-> [kind |-> "none", a |-> <<>>]]
    /\ init_cycle_count = 0
    /\ init_cc_val = <<>>
    /\ pc_init = "idle"

\* initialise_arrays on the channel
InitialiseArray ==
    /\ pc_init = "start"
    /\ init_cn' = [init_cn EXCEPT !.data = DataInit(init_cn.cn_type, init_cn.cn_data_type,
                                                   init_cn.n_bytes, init_cycle_count)]
    /\ pc_init' = "initialised"
    /\ UNCHANGED <<init_cycle_count, init_cc_val>>
    /\ UNCHANGED <<infoVars, sortedVars, decodeVars, unsortedVars, namesVars, layoutVars, convVars, commentVars, mdVars, matVars, dlVars, chainVars, nilVars, maskVars, wideVars, posVars, tableVars, mdfVars, parVars>>

\* convert_all_channels on the channel, whose conversion block has cc_type 1;
\* a virtual channel has no bytes to read before
ConvertInitialised ==
    /\ pc_init = "initialised"
    /\ LET data == LinearConversion(init_cn.data, init_cc_val[0], init_cc_val[1])
       IN  IF data.kind = "panic"
           THEN /\ pc_init' = "panic"
                /\ UNCHANGED init_cn
           ELSE /\ pc_init' = "converted"
                /\ init_cn' = [init_cn EXCEPT !.data = data]
    /\ UNCHANGED <<init_cycle_count, init_cc_val>>
    /\ UNCHANGED <<infoVars, sortedVars, decodeVars, unsortedVars, namesVars, layoutVars, convVars, commentVars, mdVars, matVars, dlVars, chainVars, nilVars, maskVars, wideVars, posVars, tableVars, mdfVars, parVars>>

(***************************************************************************)
(* mdfreader4 on a data group with one channel group of two channels and   *)
(* one record: read_data, then convert_all_channels.                       *)
(***************************************************************************)
\* the element a record holds for a channel, and the one data_init gives
MatRaw(kind) == IF kind \in ComplexKinds THEN <<3, 3>> ELSE 3

MatZero(kind) == IF kind \in ComplexKinds THEN <<0, 0>> ELSE 0

\* cc_val of the conversion blocks: linear 2 * raw + 1, rational raw^2 / 1
MatLinearVal == (0 :> F64(2, 0)) @@ (1 :> F64(4, 0))

MatRationalVal ==
    [j \in 0..5 |-> IF j \in {0, 5} THEN F64(2, 0) ELSE F64(0, 0)]

\* read_channels_from_bytes of mdfreader4.rs for one channel: cn_type 5 is
\* left todo!()
MatReadChannel(c) ==
    IF c.cn_type = 5 THEN [c EXCEPT !.data = ConvPanicked]
    ELSE [c EXCEPT !.data.a = <<MatRaw(c.data.kind)>>]

\* the match of convert_all_channels for one channel
MatConvertChannel(c) ==
    IF c.cc_type = 1
    THEN [c EXCEPT !.data = LinearConversion(c.data, MatLinearVal[0], MatLinearVal[1])]
    ELSE IF c.cc_type = 2
    THEN [c EXCEPT !.data = RationalConversion(c.data, MatRationalVal)]
    ELSE c

\* the loop of convert_all_channels over the channels o[i..]: a panic ends it
RECURSIVE MatConvertLoop(_, _, _)
MatConvertLoop(cns, o, i) ==
    IF i > Len(o) THEN [panicked |-> FALSE, cn |-> cns]
    ELSE LET c == MatConvertChannel(cns[o[i]])
         IN  IF c.data.kind = "panic"
             THEN [panicked |-> TRUE, cn |-> cns]
             ELSE MatConvertLoop([cns EXCEPT ![o[i]] = c], o, i + 1)

MatInit ==
    /\ mat_block_id \in {"##DT", "##SD", "##LD"}
    /\ \E kinds \in [1..2 -> {"UInt8", "Int16", "Complex16"}] :
          \E cn_types \in [1..2 -> {0, 5}], cc_types \in [1..2 -> {0, 1, 2}] :
              mat_cn = [k \in 1..2 |->
                          [cn_type |-> cn_types[k], cc_type |-> cc_types[k],
                           data |-> [kind |-> kinds[k], a |-> <<MatZero(kinds[k])>>]]]
    /\ pc_mat = "start"

MatIdle ==
    /\ mat_block_id = "none"
    /\ mat_cn = <<>>
    /\ pc_mat = "idle"

\* read_data: "##SD" and "##LD" are left todo!(); for "##DT" the channels
\* are read in parallel, and when one of them panics the call panics with
\* any of the other channels read or not
MatReadData ==
    /\ pc_mat = "start"
    /\ IF mat_block_id \in {"##SD", "##LD"}
       THEN /\ pc_mat' = "panic"
            /\ UNCHANGED mat_cn
       ELSE IF \E k \in DOMAIN mat_cn : MatReadChannel(mat_cn[k]).data.kind = "panic"
       THEN /\ pc_mat' = "panic"
            /\ \E done \in SUBSET {k \in DOMAIN mat_cn : mat_cn[k].cn_type # 5} :
                  mat_cn' = [k \in DOMAIN mat_cn |->
                                IF k \in done THEN MatReadChannel(mat_cn[k]) ELSE mat_cn[k]]
       ELSE /\ pc_mat' = "read"
            /\ mat_cn' = [k \in DOMAIN mat_cn |-> MatReadChannel(mat_cn[k])]
    /\ UNCHANGED mat_block_id
    /\ UNCHANGED <<infoVars, sortedVars, decodeVars, unsortedVars, namesVars, layoutVars, convVars, commentVars, mdVars, initVars, dlVars, chainVars, nilVars, maskVars, wideVars, posVars, tableVars, mdfVars, parVars>>

\* convert_all_channels, the channels being met in the order of the HashMap
MatConvertAllChannels ==
    /\ pc_mat = "read"
    /\ \E o \in Permutations(DOMAIN mat_cn) :
          LET r == MatConvertLoop(mat_cn, o, 1)
          IN  /\ mat_cn' = r.cn
              /\ pc_mat' = IF r.panicked THEN "panic" ELSE "returned"
    /\ UNCHANGED mat_block_id
    /\ UNCHANGED <<infoVars, sortedVars, decodeVars, unsortedVars, namesVars, layoutVars, convVars, commentVars, mdVars, initVars, dlVars, chainVars, nilVars, maskVars, wideVars, posVars, tableVars, mdfVars, parVars>>

(***************************************************************************)
(* Sorted data list: parser_dl4_sorted of mdfreader4.rs.  The payloads of  *)
(* the data blocks, one after the other, are the bytes Payload(0, o).      *)
(***************************************************************************)
\* payload of the n-th data block
DlBlockBytes(blocks, n) ==
    [b \in 1..blocks[n] |-> Payload(0, DlOffset(blocks, n - 1) + b - 1)]

\* what parser_dl4_sorted keeps in data after the records of a block of
\* block_length bytes were copied: copy_within and truncate, or clear
DlKeepRemaining(data, block_length, record_length) ==
    LET n_record_chunk == block_length \div record_length
        remaining == block_length % record_length
    IN  IF remaining > 0
        THEN SubSeq(SubSeq(data, record_length * n_record_chunk + 1, Len(data)),
                    1, remaining)
        ELSE <<>>

DlInit ==
    /\ \E n \in 1..MaxDlBlocks : dl_data_blocks \in [1..n -> 1..MaxDlBlockLen]
    /\ \E record_length \in 1..MaxDlRecord, endian \in BOOLEAN :
          dl_cg = [record_length |-> record_length,
                   cg_cycle_count |->
                       DlOffset(dl_data_blocks, Len(dl_data_blocks)) \div record_length,
                   cn |-> Channels(record_length, endian)]
    /\ dl_data = <<>>
    /\ dl_previous_index = 0
    /\ dl_cn_data = <<>>
    /\ dl_next = 0
    /\ pc_dl = "start"

DlIdle ==
    /\ dl_data_blocks = <<>>
    /\ dl_cg = [record_length |-> 1, cg_cycle_count |-> 0, cn |-> <<>>]
    /\ dl_data = <<>>
    /\ dl_previous_index = 0
    /\ dl_cn_data = <<>>
    /\ dl_next = 0
    /\ pc_dl = "idle"

\* parser_dl4_sorted up to its loop over the data blocks
ParserDl4SortedStart ==
    /\ pc_dl = "start"
    /\ dl_cn_data' = InitialiseArrays(dl_cg.cn, dl_cg.cg_cycle_count)
    /\ dl_data' = <<>>
    /\ dl_previous_index' = 0
    /\ pc_dl' = "blocks"
    /\ UNCHANGED <<dl_data_blocks, dl_cg, dl_next>>
    /\ UNCHANGED <<infoVars, sortedVars, decodeVars, unsortedVars, namesVars, layoutVars, convVars, commentVars, mdVars, initVars, matVars, chainVars, nilVars, maskVars, wideVars, posVars, tableVars, mdfVars, parVars>>

\* one data block of the list: its payload is appended to data, the records
\* are copied, the rest is kept
ParserDl4SortedBlock ==
    /\ pc_dl = "blocks"
    /\ dl_next < Len(dl_data_blocks)
    /\ LET block_length == dl_data_blocks[dl_next + 1]
           data == dl_data \o DlBlockBytes(dl_data_blocks, dl_next + 1)
           record_length == dl_cg.record_length
           n_record_chunk == block_length \div record_length
       IN  /\ dl_cn_data' = Reader4ReadChannelsFromBytes(BufferOf(data), 0,
                                record_length * n_record_chunk, dl_cg.cn, dl_cn_data,
                                record_length, dl_previous_index)
           /\ dl_data' = DlKeepRemaining(data, block_length, record_length)
           /\ dl_previous_index' = dl_previous_index + n_record_chunk
    /\ dl_next' = dl_next + 1
    /\ UNCHANGED <<dl_data_blocks, dl_cg, pc_dl>>
    /\ UNCHANGED <<infoVars, sortedVars, decodeVars, unsortedVars, namesVars, layoutVars, convVars, commentVars, mdVars, initVars, matVars, chainVars, nilVars, maskVars, wideVars, posVars, tableVars, mdfVars, parVars>>

\* the loop over the data blocks is over
ParserDl4SortedEnd ==
    /\ pc_dl = "blocks"
    /\ dl_next = Len(dl_data_blocks)
    /\ pc_dl' = "done"
    /\ UNCHANGED <<dl_data_blocks, dl_cg, dl_data, dl_previous_index, dl_cn_data, dl_next>>
    /\ UNCHANGED <<infoVars, sortedVars, decodeVars, unsortedVars, namesVars, layoutVars, convVars, commentVars, mdVars, initVars, matVars, chainVars, nilVars, maskVars, wideVars, posVars, tableVars, mdfVars, parVars>>

(***************************************************************************)
(* Chain of DL blocks: parser_dl4 of mdfreader4.rs.  parser_dl4_block is   *)
(* in the part of mdfinfo4.rs that is not in the source tree: it is        *)
(* modelled as seeking from position to target, reading the block there    *)
(* and returning it with the offset that follows it.                       *)
(***************************************************************************)
NoDlBlock == [addr |-> 0, dl_dl_next |-> 0, len |-> 0]

\* the DL block whose content starts at target (4 bytes after its id)
DlBlockAt(file, target) ==
    IF \E i \in DOMAIN file : file[i].addr + 4 = target
    THEN file[CHOOSE i \in DOMAIN file : file[i].addr + 4 = target]
    ELSE NoDlBlock

\* parser_dl4_block(rdr, target, position): the block and the position after it
ParserDl4Block(file, target) ==
    LET block == DlBlockAt(file, target)
    IN  [block |-> block, pos |-> block.addr + block.len]

\* the chain: n blocks of DlLens bytes put in the slots of the file in any
\* order, each linking to the next and the last linking to NIL
DlLens == {40, 48}

ChainFile(n, order, len) ==
    [i \in 1..n |-> [addr |-> 64 + 100 * order[i],
                     dl_dl_next |-> IF i = n THEN 0 ELSE 64 + 100 * order[i + 1],
                     len |-> len]]

\* the reader stands after the id of the first DL block
ChainInit ==
    /\ \E n \in 1..MaxChain, len \in DlLens :
          \E order \in Permutations(1..n) :
              /\ ch_file = ChainFile(n, [i \in 1..n |-> order[i]], len)
              /\ \E tail \in {0, 4} : ch_file_len = 64 + 100 * n + len + tail
    /\ ch_cursor = ch_file[1].addr + 4
    /\ ch_position = ch_file[1].addr + 4
    /\ ch_block = NoDlBlock
    /\ ch_next_dl = 0
    /\ ch_dl_blocks = <<>>
    /\ pc_chain = "start"

ChainIdle ==
    /\ ch_file = <<>>
    /\ ch_file_len = 0
    /\ ch_cursor = 0
    /\ ch_position = 0
    /\ ch_block = NoDlBlock
    /\ ch_next_dl = 0
    /\ ch_dl_blocks = <<>>
    /\ pc_chain = "idle"

\* parser_dl4 up to its while loop: the first DL block
ParserDl4First ==
    /\ pc_chain = "start"
    /\ LET r == ParserDl4Block(ch_file, ch_position)
       IN  /\ ch_block' = r.block
           /\ ch_position' = r.pos
           /\ ch_cursor' = r.pos
           /\ ch_dl_blocks' = <<r.block.addr>>
           /\ ch_next_dl' = r.block.dl_dl_next
    /\ pc_chain' = "loop"
    /\ UNCHANGED <<ch_file, ch_file_len>>
    /\ UNCHANGED <<infoVars, sortedVars, decodeVars, unsortedVars, namesVars, layoutVars, convVars, commentVars, mdVars, initVars, matVars, dlVars, nilVars, maskVars, wideVars, posVars, tableVars, mdfVars, parVars>>

\* one iteration of the while loop: 4 bytes are read where the reader
\* stands, then the block at block.dl_dl_next + 4 is parsed, block being the
\* one bound before the loop (the block bound in the loop body is another
\* variable, dropped at the end of the iteration)
ParserDl4Next ==
    /\ pc_chain = "loop"
    /\ ch_next_dl > 0
    /\ Len(ch_dl_blocks) < MaxPushed
    /\ IF ch_cursor + 4 > ch_file_len
       THEN /\ pc_chain' = "panic"   \* could not read DL block id
            /\ UNCHANGED <<ch_cursor, ch_block, ch_next_dl, ch_dl_blocks, ch_position>>
       ELSE LET r == ParserDl4Block(ch_file, ch_block.dl_dl_next + 4)
            IN  /\ ch_position' = r.pos
                /\ ch_cursor' = r.pos
                /\ ch_dl_blocks' = Append(ch_dl_blocks, r.block.addr)
                /\ ch_next_dl' = r.block.dl_dl_next
                /\ UNCHANGED <<ch_block, pc_chain>>
    /\ UNCHANGED <<ch_file, ch_file_len>>
    /\ UNCHANGED <<infoVars, sortedVars, decodeVars, unsortedVars, namesVars, layoutVars, convVars, commentVars, mdVars, initVars, matVars, dlVars, nilVars, maskVars, wideVars, posVars, tableVars, mdfVars, parVars>>

\* the loop is still running with MaxPushed blocks pushed: the walk is cut
ParserDl4Cut ==
    /\ pc_chain = "loop"
    /\ ch_next_dl > 0
    /\ Len(ch_dl_blocks) >= MaxPushed
    /\ pc_chain' = "full"
    /\ UNCHANGED <<ch_file, ch_file_len, ch_cursor, ch_block, ch_next_dl, ch_dl_blocks,
                   ch_position>>
    /\ UNCHANGED <<infoVars, sortedVars, decodeVars, unsortedVars, namesVars, layoutVars, convVars, commentVars, mdVars, initVars, matVars, dlVars, nilVars, maskVars, wideVars, posVars, tableVars, mdfVars, parVars>>

\* next_dl is NIL: parser_dl4 returns dl_blocks
ParserDl4Return ==
    /\ pc_chain = "loop"
    /\ ch_next_dl <= 0
    /\ pc_chain' = "done"
    /\ UNCHANGED <<ch_file, ch_file_len, ch_cursor, ch_block, ch_next_dl, ch_dl_blocks,
                   ch_position>>
    /\ UNCHANGED <<infoVars, sortedVars, decodeVars, unsortedVars, namesVars, layoutVars, convVars, commentVars, mdVars, initVars, matVars, dlVars, nilVars, maskVars, wideVars, posVars, tableVars, mdfVars, parVars>>

(***************************************************************************)
(* Links of version 3 blocks: hd3_comment_parser, parse_tx,                *)
(* parse_cn3_block, parse_cc3_block, parse_ce and get_channel_unit of      *)
(* mdfinfo3.rs.  Strings are sequences of ISO 8859-1 codes.                *)
(***************************************************************************)
\* trim_end_matches(char::from(0))
RECURSIVE TrimEndNul(_)
TrimEndNul(b) ==
    IF b = <<>> THEN <<>>
    ELSE IF b[Len(b)] = 0 THEN TrimEndNul(SubSeq(b, 1, Len(b) - 1)) ELSE b

\* n NUL bytes
Nuls(n) == [i \in 1..n |-> 0]

\* the first 64 bytes of the file, the identification block: "MDF     ",
\* the format, the program name, id_default_byteorder, the floating point
\* format, id_ver, id_check and the reserved bytes
IdBlockBytes(id) ==
    <<77, 68, 70, 32, 32, 32, 32, 32>> \o <<51, 46, 51, 48, 32, 32, 32, 32>> \o
    <<109, 100, 102, 114, 32, 32, 32, 32>> \o
    <<id.id_default_byteorder % 256, id.id_default_byteorder \div 256>> \o <<0, 0>> \o
    <<id.id_ver % 256, id.id_ver \div 256>> \o Nuls(34)

\* addresses of the CC blocks, of the CE block and of the TX block of the file
CcAddresses == {100, 200}
CeAddress == 300
TxAddress == 400

\* the bytes of the file at offsets from..(from + n - 1), within the
\* identification block or within a CC block: the CC block at address a has
\* the unit "m" (a = 100) or "V" (a = 200) and is a linear conversion
FileBytes(id, from, n) ==
    IF from + n <= 64 THEN SubSeq(IdBlockBytes(id), from + 1, from + n)
    ELSE IF from = 100 + 22 THEN <<109>> \o Nuls(n - 1)
    ELSE IF from = 200 + 22 THEN <<86>> \o Nuls(n - 1)
    ELSE Nuls(n)

\* hdr_len of the Blockheader3 read at target: bytes 2 and 3, little endian
HdrLenAt(id, target) ==
    IF target = TxAddress THEN 12
    ELSE FileBytes(id, target + 2, 1)[1] + 256 * FileBytes(id, target + 3, 1)[1]

\* parse_tx(rdr, target, position): the offset read, and whether read_exact
\* of the hdr_len - 4 bytes of text fails
ParseTxAt(id, file_len, target) ==
    [read |-> target, panic |-> target + HdrLenAt(id, target) > file_len]

\* parse_cc3_block(rdr, target, position, sharable): the offset read and
\* the new sharable.cc; cc_unit is the 20 bytes at offset 22 of the block
ParseCc3Block(id, target, cc) ==
    [read |-> target,
     cc |-> [a \in DOMAIN cc \cup {target} |->
                IF a = target THEN FileBytes(id, target + 22, 20) ELSE cc[a]]]

\* parse_ce(rdr, target, position, sharable): the offset read and the new
\* keys of sharable.ce
ParseCeLink(target, ce) == [read |-> target, ce |-> ce \cup {target}]

\* get_channel_unit of a channel: the trimmed cc_unit of the entry of
\* sharable.cc for its cn_cc_conversion, or the empty string
GetChannelUnit(chan, cc) ==
    IF chan.cn_cc_conversion \in DOMAIN cc THEN TrimEndNul(cc[chan.cn_cc_conversion])
    ELSE <<>>

NilInit ==
    /\ nl_id \in [id_default_byteorder : {0, 1}, id_ver : {300, 330}]
    /\ nl_file_len \in {512, 16384}
    /\ nl_hd_md_comment \in {0, TxAddress}
    /\ \E n \in 1..MaxNilChannels :
          nl_cn \in [1..n -> [cn_cc_conversion : {0} \cup CcAddresses,
                              cn_ce_source : {0, CeAddress}]]
    /\ nl_parsed = 0
    /\ nl_reads = {}
    /\ nl_cc = <<>>
    /\ nl_ce = {}
    /\ nl_units = <<>>
    /\ pc_nil = "hd"

NilIdle ==
    /\ nl_id = [id_default_byteorder |-> 0, id_ver |-> 0]
    /\ nl_file_len = 0
    /\ nl_hd_md_comment = 0
    /\ nl_cn = <<>>
    /\ nl_parsed = 0
    /\ nl_reads = {}
    /\ nl_cc = <<>>
    /\ nl_ce = {}
    /\ nl_units = <<>>
    /\ pc_nil = "idle"

\* MdfInfo::new, version 3: hd3_comment_parser calls parse_tx on hd_md_comment
Hd3CommentParser ==
    /\ pc_nil = "hd"
    /\ LET r == ParseTxAt(nl_id, nl_file_len, nl_hd_md_comment)
       IN  /\ nl_reads' = nl_reads \cup {r.read}
           /\ pc_nil' = IF r.panic THEN "panic" ELSE "chan"
    /\ UNCHANGED <<nl_id, nl_file_len, nl_hd_md_comment, nl_cn, nl_parsed, nl_cc, nl_ce,
                   nl_units>>
    /\ UNCHANGED <<infoVars, sortedVars, decodeVars, unsortedVars, namesVars, layoutVars, convVars, commentVars, mdVars, initVars, matVars, dlVars, chainVars, maskVars, wideVars, posVars, tableVars, mdfVars, parVars>>

\* parse_cn3_block of the next channel: its CC block and its CE block are
\* parsed unless sharable already has their address as a key
ParseCn3BlockLinks ==
    /\ pc_nil = "chan"
    /\ nl_parsed < Len(nl_cn)
    /\ LET chan == nl_cn[nl_parsed + 1]
           readcc == chan.cn_cc_conversion \notin DOMAIN nl_cc
           readce == chan.cn_ce_source \notin nl_ce
           c == ParseCc3Block(nl_id, chan.cn_cc_conversion, nl_cc)
           e == ParseCeLink(chan.cn_ce_source, nl_ce)
       IN  /\ nl_cc' = IF readcc THEN c.cc ELSE nl_cc
           /\ nl_ce' = IF readce THEN e.ce ELSE nl_ce
           /\ nl_reads' = nl_reads \cup (IF readcc THEN {c.read} ELSE {})
                                   \cup (IF readce THEN {e.read} ELSE {})
    /\ nl_parsed' = nl_parsed + 1
    /\ UNCHANGED <<nl_id, nl_file_len, nl_hd_md_comment, nl_cn, nl_units, pc_nil>>
    /\ UNCHANGED <<infoVars, sortedVars, decodeVars, unsortedVars, namesVars, layoutVars, convVars, commentVars, mdVars, initVars, matVars, dlVars, chainVars, maskVars, wideVars, posVars, tableVars, mdfVars, parVars>>

\* every channel is parsed
EndParseCn3 ==
    /\ pc_nil = "chan"
    /\ nl_parsed = Len(nl_cn)
    /\ pc_nil' = "units"
    /\ UNCHANGED <<nl_id, nl_file_len, nl_hd_md_comment, nl_cn, nl_parsed, nl_reads, nl_cc,
                   nl_ce, nl_units>>
    /\ UNCHANGED <<infoVars, sortedVars, decodeVars, unsortedVars, namesVars, layoutVars, convVars, commentVars, mdVars, initVars, matVars, dlVars, chainVars, maskVars, wideVars, posVars, tableVars, mdfVars, parVars>>

\* get_channel_unit of every channel
GetChannelUnits ==
    /\ pc_nil = "units"
    /\ nl_units' = [i \in DOMAIN nl_cn |-> GetChannelUnit(nl_cn[i], nl_cc)]
    /\ pc_nil' = "done"
    /\ UNCHANGED <<nl_id, nl_file_len, nl_hd_md_comment, nl_cn, nl_parsed, nl_reads, nl_cc,
                   nl_ce>>
    /\ UNCHANGED <<infoVars, sortedVars, decodeVars, unsortedVars, namesVars, layoutVars, convVars, commentVars, mdVars, initVars, matVars, dlVars, chainVars, maskVars, wideVars, posVars, tableVars, mdfVars, parVars>>

(***************************************************************************)
(* apply_bit_mask_offset of mdfreader4.rs.  An integer is the sequence of  *)
(* its bits, least significant first, as long as its native type is wide.  *)
(***************************************************************************)
\* bits of the native type of a variant of ChannelData
NativeBits(kind) ==
    IF kind \in {"Int8", "UInt8"} THEN 8
    ELSE IF kind \in {"Int16", "UInt16"} THEN 16
    ELSE IF kind \in {"Int24", "UInt24", "Int32", "UInt32"} THEN 32
    ELSE 64

SignedKinds == {"Int8", "Int16", "Int24", "Int32", "Int48", "Int64"}

\* the value of the n_bytes bytes of a record in the native type of kind:
\* zero-extended, or sign-extended for a signed variant
ExtendBits(raw, kind) ==
    [i \in 1..NativeBits(kind) |->
        IF i <= Len(raw) THEN raw[i]
        ELSE IF kind \in SignedKinds THEN raw[Len(raw)] ELSE 0]

\* x <<= n on the native type
ShiftLeft(x, n) == [i \in 1..Len(x) |-> IF i > n THEN x[i - n] ELSE 0]

\* x >>= n on the native type: arithmetic for a signed type
ShiftRight(x, n, signed) ==
    [i \in 1..Len(x) |-> IF i + n <= Len(x) THEN x[i + n]
                         ELSE IF signed THEN x[Len(x)] ELSE 0]

\* apply_bit_mask_offset on one channel: the new cn.data
BitMaskOffset(chan, data) ==
    LET left_shift == chan.n_bytes * 8 - chan.cn_bit_offset - chan.cn_bit_count
        right_shift == left_shift + chan.cn_bit_offset
    IN  IF chan.cn_data_type <= 3 /\ (left_shift > 0 \/ right_shift > 0)
        THEN [data EXCEPT !.a = [i \in DOMAIN data.a |->
                 ShiftRight(ShiftLeft(data.a[i], left_shift), right_shift,
                            data.kind \in SignedKinds)]]
        ELSE data

\* bit patterns of n bits: all ones, every other bit, the top bit alone
BitPatterns(n) ==
    {[i \in 1..n |-> 1], [i \in 1..n |-> i % 2], [i \in 1..n |-> IF i = n THEN 1 ELSE 0]}

\* n_bytes of a channel of bit_offset and bit_count
MaskNBytes(bit_offset, bit_count) == (bit_offset + bit_count + 7) \div 8

\* an integer channel whose n_bytes bytes hold its bits, already read
MaskInit ==
    /\ \E cn_data_type \in 0..3, bit_offset \in 0..7, bit_count \in 1..(8 * MaxMaskBytes) :
          /\ MaskNBytes(bit_offset, bit_count) <= MaxMaskBytes
          /\ bm_cn = [cn_data_type |-> cn_data_type,
                      n_bytes |-> MaskNBytes(bit_offset, bit_count),
                      cn_bit_offset |-> bit_offset, cn_bit_count |-> bit_count]
    /\ \E p \in BitPatterns(8 * bm_cn.n_bytes) : bm_raw = <<p>>
    /\ LET kind == ZeroedData(bm_cn.cn_data_type, bm_cn.n_bytes, 1).kind
       IN  bm_data = [kind |-> kind,
                      a |-> [i \in DOMAIN bm_raw |-> ExtendBits(bm_raw[i], kind)]]
    /\ pc_mask = "read"

MaskIdle ==
    /\ bm_cn = [cn_data_type |-> 0, n_bytes |-> 0, cn_bit_offset |-> 0, cn_bit_count |-> 0]
    /\ bm_raw = <<>>
    /\ bm_data = [kind |-> "none", a |-> <<>>]
    /\ pc_mask = "idle"

\* apply_bit_mask_offset on the data group of the channel
ApplyBitMaskOffset ==
    /\ pc_mask = "read"
    /\ bm_data' = BitMaskOffset(bm_cn, bm_data)
    /\ pc_mask' = "masked"
    /\ UNCHANGED <<bm_cn, bm_raw>>
    /\ UNCHANGED <<infoVars, sortedVars, decodeVars, unsortedVars, namesVars, layoutVars, convVars, commentVars, mdVars, initVars, matVars, dlVars, chainVars, nilVars, wideVars, posVars, tableVars, mdfVars, parVars>>

(***************************************************************************)
(* Unsigned integers of 5 to 8 bytes: the UInt48 and UInt64 arms of        *)
(* read_channels_from_bytes and read_one_channel_array of data_read4.rs.   *)
(* A u64 is the sequence of its 8 bytes, least significant first.          *)
(***************************************************************************)
\* the bytes of b in reverse order
ReverseBytes(b) == [i \in 1..Len(b) |-> b[Len(b) + 1 - i]]

\* the u64 whose low bytes are b, least significant first
ZeroExtend(b) == b \o [i \in 1..(8 - Len(b)) |-> 0]

\* read_u48::<LittleEndian>, u64::from_le_bytes on the bytes of buf
ReadLe(buf) == ZeroExtend(buf)

\* read_u48::<BigEndian>, u64::from_be_bytes on the bytes of buf
ReadBe(buf) == ZeroExtend(ReverseBytes(buf))

\* the UInt48 arm (n_bytes 5, 6) and the UInt64 arm (n_bytes 7, 8) on the
\* n_bytes bytes value of a record: for 5 and 7 bytes the value is copied
\* at the start of a zeroed buffer of 6 or 8 bytes, which is then read
ReadWide(value, n_bytes, endian) ==
    LET buf == IF n_bytes \in {6, 8} THEN value
               ELSE value \o <<0>>
    IN  IF endian THEN ReadBe(buf) ELSE ReadLe(buf)

\* bytes of record r: r + 1 at the first byte, then 16 * o + r + 1 at offset o,
\* the last byte having its top bit set
WideRecord(r, len) ==
    [o \in 1..len |-> IF o = len THEN 128 + r ELSE (16 * (o - 1) + r + 1) % 256]

WideInit ==
    /\ wd_cn \in [n_bytes : 5..8, endian : BOOLEAN, pos_byte_beg : {0, 1}]
    /\ \E n \in 1..MaxWideRecords :
          wd_records = [r \in 1..n |-> WideRecord(r, wd_cn.pos_byte_beg + wd_cn.n_bytes)]
    /\ wd_from_bytes = <<>>
    /\ wd_array = <<>>
    /\ pc_wide = "start"

WideIdle ==
    /\ wd_cn = [n_bytes |-> 0, endian |-> FALSE, pos_byte_beg |-> 0]
    /\ wd_records = <<>>
    /\ wd_from_bytes = <<>>
    /\ wd_array = <<>>
    /\ pc_wide = "idle"

\* the n_bytes bytes of the channel in record
WideValue(chan, record) ==
    SubSeq(record, chan.pos_byte_beg + 1, chan.pos_byte_beg + chan.n_bytes)

\* read_channels_from_bytes on the chunk of all the records, previous_index 0
ReadChannelsFromBytesWide ==
    /\ pc_wide = "start"
    /\ wd_from_bytes = <<>>
    /\ wd_from_bytes' = [r \in DOMAIN wd_records |->
                            ReadWide(WideValue(wd_cn, wd_records[r]), wd_cn.n_bytes,
                                     wd_cn.endian)]
    /\ pc_wide' = IF wd_array # <<>> THEN "done" ELSE "start"
    /\ UNCHANGED <<wd_cn, wd_records, wd_array>>
    /\ UNCHANGED <<infoVars, sortedVars, decodeVars, unsortedVars, namesVars, layoutVars, convVars, commentVars, mdVars, initVars, matVars, dlVars, chainVars, nilVars, maskVars, posVars, tableVars, mdfVars, parVars>>

\* read_one_channel_array on the bytes of the channel alone: data_bytes is
\* the n_bytes bytes of every record, one after the other
ReadOneChannelArrayWide ==
    /\ pc_wide = "start"
    /\ wd_array = <<>>
    /\ wd_array' = [r \in DOMAIN wd_records |->
                       ReadWide(WideValue(wd_cn, wd_records[r]), wd_cn.n_bytes,
                                wd_cn.endian)]
    /\ pc_wide' = IF wd_from_bytes # <<>> THEN "done" ELSE "start"
    /\ UNCHANGED <<wd_cn, wd_records, wd_from_bytes>>
    /\ UNCHANGED <<infoVars, sortedVars, decodeVars, unsortedVars, namesVars, layoutVars, convVars, commentVars, mdVars, initVars, matVars, dlVars, chainVars, nilVars, maskVars, posVars, tableVars, mdfVars, parVars>>

(***************************************************************************)
(* Position bookkeeping of mdfreader4 and read_data of mdfreader4.rs:      *)
(* the loop over the data groups, with simple ##DT and ##DV data blocks.   *)
(***************************************************************************)
\* bytes of a data block before its data: id, reserved, length, link count
DtHeaderLen == 24

RECURSIVE ChunkBytes(_)
\* bytes read by the loop of read_all_channels_sorted over the chunks c
ChunkBytes(c) == IF c = <<>> THEN 0 ELSE c[1][2] + ChunkBytes(Tail(c))

\* bytes read by read_all_channels_sorted for a channel group
SortedBytes(record_length, cg_cycle_count) ==
    ChunkBytes(GenerateChunks(record_length, cg_cycle_count))

\* bytes read by read_all_channels_unsorted for a block of block_length bytes
UnsortedBytes(block_length) ==
    IF block_length > DtHeaderLen THEN block_length - DtHeaderLen ELSE 0

\* the data groups a file can hold: each data block follows the previous
\* one, n_cg channel groups of the same record_length and cg_cycle_count
PosDg(shape, dg_data) ==
    [dg_data |-> dg_data, id |-> shape.id, n_cg |-> shape.n_cg,
     record_length |-> shape.record_length, cg_cycle_count |-> shape.cg_cycle_count,
     len |-> DtHeaderLen + shape.n_rec * shape.record_length + shape.extra]

PosShapes ==
    {s \in [id : {"##DT", "##DV"}, n_cg : 0..MaxPosCgs, record_length : 1..MaxPosRecord,
            cg_cycle_count : 0..MaxPosCycles, n_rec : 0..(MaxPosCgs * MaxPosCycles),
            extra : {0, PosExtra}] :
        /\ s.n_rec = (IF s.n_cg = 0 THEN 1 ELSE s.n_cg) * s.cg_cycle_count
        /\ (s.id = "##DV" => s.n_cg <= 1)}

RECURSIVE PosLayout(_, _)
\* the data groups of shapes, the first data block at offset from
PosLayout(shapes, from) ==
    IF shapes = <<>> THEN <<>>
    ELSE LET dg == PosDg(shapes[1], from)
         IN  <<dg>> \o PosLayout(Tail(shapes), from + dg.len)

PosInit ==
    /\ \E n \in 1..MaxPosDgs : \E shapes \in [1..n -> PosShapes] :
          ps_dg = PosLayout(shapes, FirstDgData)
    /\ ps_idx = 1
    /\ ps_position = 0
    /\ ps_cursor = 0
    /\ pc_pos = "loop"

PosIdle ==
    /\ ps_dg = <<>>
    /\ ps_idx = 0
    /\ ps_position = 0
    /\ ps_cursor = 0
    /\ pc_pos = "idle"

\* mdfreader4, start of an iteration: seek_relative(dg_data - position),
\* then the 4 bytes of the block id are read
MdfReader4Seek ==
    /\ pc_pos = "loop"
    /\ ps_idx <= Len(ps_dg)
    /\ ps_dg[ps_idx].dg_data # 0
    /\ ps_cursor + (ps_dg[ps_idx].dg_data - ps_position) >= 0
    /\ ps_cursor' = ps_cursor + (ps_dg[ps_idx].dg_data - ps_position) + 4
    /\ pc_pos' = "id"
    /\ UNCHANGED <<ps_dg, ps_idx, ps_position>>
    /\ UNCHANGED <<infoVars, sortedVars, decodeVars, unsortedVars, namesVars, layoutVars, convVars, commentVars, mdVars, initVars, matVars, dlVars, chainVars, nilVars, maskVars, wideVars, tableVars, mdfVars, parVars>>

\* read_data on a ##DT block, with position = dg_data: the rest of the
\* header, then the records of the sorted or unsorted data group
ReadDataDtPos ==
    /\ pc_pos = "id"
    /\ ps_dg[ps_idx].id = "##DT"
    /\ LET dg == ps_dg[ps_idx]
           read == IF dg.n_cg = 1 THEN SortedBytes(dg.record_length, dg.cg_cycle_count)
                   ELSE IF dg.n_cg # 0 THEN UnsortedBytes(dg.len)
                   ELSE 0
       IN  /\ ps_cursor' = ps_cursor + (DtHeaderLen - 4) + read
           /\ ps_position' = dg.dg_data + dg.len
    /\ ps_idx' = ps_idx + 1
    /\ pc_pos' = "loop"
    /\ UNCHANGED ps_dg
    /\ UNCHANGED <<infoVars, sortedVars, decodeVars, unsortedVars, namesVars, layoutVars, convVars, commentVars, mdVars, initVars, matVars, dlVars, chainVars, nilVars, maskVars, wideVars, tableVars, mdfVars, parVars>>

\* read_data on a ##DV block: read_all_channels_sorted for every channel group
ReadDataDvPos ==
    /\ pc_pos = "id"
    /\ ps_dg[ps_idx].id = "##DV"
    /\ LET dg == ps_dg[ps_idx]
       IN  /\ ps_cursor' = ps_cursor + (DtHeaderLen - 4)
                             + dg.n_cg * SortedBytes(dg.record_length, dg.cg_cycle_count)
           /\ ps_position' = dg.dg_data + dg.len
    /\ ps_idx' = ps_idx + 1
    /\ pc_pos' = "loop"
    /\ UNCHANGED ps_dg
    /\ UNCHANGED <<infoVars, sortedVars, decodeVars, unsortedVars, namesVars, layoutVars, convVars, commentVars, mdVars, initVars, matVars, dlVars, chainVars, nilVars, maskVars, wideVars, tableVars, mdfVars, parVars>>

\* mdfreader4, after the last data group
MdfReader4End ==
    /\ pc_pos = "loop"
    /\ ps_idx > Len(ps_dg)
    /\ pc_pos' = "done"
    /\ UNCHANGED <<ps_dg, ps_idx, ps_position, ps_cursor>>
    /\ UNCHANGED <<infoVars, sortedVars, decodeVars, unsortedVars, namesVars, layoutVars, convVars, commentVars, mdVars, initVars, matVars, dlVars, chainVars, nilVars, maskVars, wideVars, tableVars, mdfVars, parVars>>

(***************************************************************************)
(* Text tables of parse_cc3_block of mdfinfo3.rs: cc_type 11 (value to     *)
(* text) and cc_type 12 (value range to text).  A text is the sequence of  *)
(* its latin1 bytes.                                                       *)
(***************************************************************************)
\* Vec::insert(index, element), index counted from 0: the elements from
\* index on are shifted to the right
VecInsert(v, index, element) ==
    SubSeq(v, 1, index) \o <<element>> \o SubSeq(v, index + 1, Len(v))

\* bytes of the text field of a row of cc_type 11
TextFieldLen == 32

\* the texts of the rows: "A", "BC" and the empty text
TableTexts == {<<65>>, <<66, 67>>, <<>>}

\* the 32 bytes of the text field holding text t
TextField(t) == t \o Nuls(TextFieldLen - Len(t))

\* addresses of the TX blocks of the file, and the text each holds
TableTxAddresses == {400, 500}

\* hdr_len of the Blockheader3 parse_tx reads at target: 12 for the TX
\* blocks ("on" and "off" and their padding), and for target 0 bytes 2 and 3
\* of the identification block, "F" and " "
TableHdrLen(target) == IF target = 0 THEN 70 + 256 * 32 ELSE 12

\* the comment parse_tx returns for the block at target; at target 0 its
\* leading bytes are the 4 spaces that follow "MDF " in the file
TableTxText(target) ==
    IF target = 400 THEN <<111, 110>>
    ELSE IF target = 500 THEN <<111, 102, 102>>
    ELSE <<32, 32, 32, 32>>

TableInit ==
    /\ tb_block \in [cc_type : {11, 12}, cc_size : 0..MaxCcSize]
    /\ tb_rows \in IF tb_block.cc_type = 11
                   THEN [1..tb_block.cc_size -> {1, 2} \X {TextField(t) : t \in TableTexts}]
                   ELSE [1..tb_block.cc_size -> {1} \X {2, 3} \X TableTxAddresses]
    /\ tb_file_len \in {1024, 16384}
    /\ tb_index = 0
    /\ tb_text = <<>>
    /\ tb_pointer = <<>>
    /\ tb_pairs = <<>>
    /\ tb_reads = <<>>
    /\ tb_cc = <<>>
    /\ pc_table = "start"

TableIdle ==
    /\ tb_block = [cc_type |-> 0, cc_size |-> 0]
    /\ tb_rows = <<>>
    /\ tb_file_len = 0
    /\ tb_index = 0
    /\ tb_text = <<>>
    /\ tb_pointer = <<>>
    /\ tb_pairs = <<>>
    /\ tb_reads = <<>>
    /\ tb_cc = <<>>
    /\ pc_table = "idle"

\* parse_cc3_block, cc_type 11 or 12, up to the first loop: the vectors are
\* created with cc_size default rows
ParseCc3Table ==
    /\ pc_table = "start"
    /\ tb_pairs' = [i \in 1..tb_block.cc_size |->
                       IF tb_block.cc_type = 11 THEN <<0, <<>>>> ELSE <<0, 0, <<>>>>]
    /\ tb_pointer' = IF tb_block.cc_type = 12
                     THEN [i \in 1..tb_block.cc_size |-> <<0, 0, 0>>] ELSE <<>>
    /\ pc_table' = IF tb_block.cc_size = 0 THEN "insert"
                   ELSE IF tb_block.cc_type = 11 THEN "rows" ELSE "pointers"
    /\ UNCHANGED <<tb_block, tb_rows, tb_file_len, tb_index, tb_text, tb_reads, tb_cc>>
    /\ UNCHANGED <<infoVars, sortedVars, decodeVars, unsortedVars, namesVars, layoutVars, convVars, commentVars, mdVars, initVars, matVars, dlVars, chainVars, nilVars, maskVars, wideVars, posVars, mdfVars, parVars>>

\* one iteration of the loop of cc_type 11: the value and the 32 bytes are
\* read, decode_to appends the bytes to text, text is trimmed, the row is
\* inserted at index
ParseCc3TextRow ==
    /\ pc_table = "rows"
    /\ LET val == tb_rows[tb_index + 1][1]
           buf == tb_rows[tb_index + 1][2]
           text == TrimEndNul(tb_text \o buf)
       IN  /\ tb_text' = text
           /\ tb_pairs' = VecInsert(tb_pairs, tb_index, <<val, text>>)
    /\ tb_index' = tb_index + 1
    /\ pc_table' = IF tb_index + 1 = tb_block.cc_size THEN "insert" ELSE "rows"
    /\ UNCHANGED <<tb_block, tb_rows, tb_file_len, tb_pointer, tb_reads, tb_cc>>
    /\ UNCHANGED <<infoVars, sortedVars, decodeVars, unsortedVars, namesVars, layoutVars, convVars, commentVars, mdVars, initVars, matVars, dlVars, chainVars, nilVars, maskVars, wideVars, posVars, mdfVars, parVars>>

\* one iteration of the first loop of cc_type 12: the row is inserted at
\* index in pairs_pointer
ParseCc3RangeRow ==
    /\ pc_table = "pointers"
    /\ tb_pointer' = VecInsert(tb_pointer, tb_index, tb_rows[tb_index + 1])
    /\ tb_index' = IF tb_index + 1 = tb_block.cc_size THEN 0 ELSE tb_index + 1
    /\ pc_table' = IF tb_index + 1 = tb_block.cc_size THEN "texts" ELSE "pointers"
    /\ UNCHANGED <<tb_block, tb_rows, tb_file_len, tb_text, tb_pairs, tb_reads, tb_cc>>
    /\ UNCHANGED <<infoVars, sortedVars, decodeVars, unsortedVars, namesVars, layoutVars, convVars, commentVars, mdVars, initVars, matVars, dlVars, chainVars, nilVars, maskVars, wideVars, posVars, mdfVars, parVars>>

\* one iteration of the second loop of cc_type 12, over pairs_pointer:
\* parse_tx of the text pointer, the row inserted at index in pairs_string
ParseCc3RangeText ==
    /\ pc_table = "texts"
    /\ LET row == tb_pointer[tb_index + 1]
       IN  /\ tb_reads' = Append(tb_reads, row[3])
           /\ IF row[3] + TableHdrLen(row[3]) > tb_file_len
              THEN /\ pc_table' = "panic"
                   /\ UNCHANGED <<tb_pairs, tb_index>>
              ELSE /\ tb_pairs' = VecInsert(tb_pairs, tb_index,
                                            <<row[1], row[2], TableTxText(row[3])>>)
                   /\ tb_index' = tb_index + 1
                   /\ pc_table' = IF tb_index + 1 = Len(tb_pointer) THEN "insert"
                                  ELSE "texts"
    /\ UNCHANGED <<tb_block, tb_rows, tb_file_len, tb_text, tb_pointer, tb_cc>>
    /\ UNCHANGED <<infoVars, sortedVars, decodeVars, unsortedVars, namesVars, layoutVars, convVars, commentVars, mdVars, initVars, matVars, dlVars, chainVars, nilVars, maskVars, wideVars, posVars, mdfVars, parVars>>

\* parse_cc3_block, end: sharable.cc.insert(target, (cc_block, conversion))
ParseCc3TableInsert ==
    /\ pc_table = "insert"
    /\ tb_cc' = <<tb_block, tb_pairs>>
    /\ pc_table' = "done"
    /\ UNCHANGED <<tb_block, tb_rows, tb_file_len, tb_index, tb_text, tb_pointer, tb_pairs,
                   tb_reads>>
    /\ UNCHANGED <<infoVars, sortedVars, decodeVars, unsortedVars, namesVars, layoutVars, convVars, commentVars, mdVars, initVars, matVars, dlVars, chainVars, nilVars, maskVars, wideVars, posVars, mdfVars, parVars>>

(***************************************************************************)
(* struct Mdf of mdfreader.rs: add_channel, remove_channel,                *)
(* rename_channel, set_channel_data, get_channel_data and                  *)
(* clear_channel_data_from_memory.  An array is a number from 1, indexes   *)
(* are counted from 0 as in the code.                                      *)
(***************************************************************************)
MdfNames == {"a", "b"}

\* Option<String> master_channel: "" is None
MdfMasters == MdfNames \cup {""}

MdfArrays == 1..MaxMdfArray

\* the map m without key k
MapRemove(m, k) == [x \in DOMAIN m \ {k} |-> m[x]]

\* HashMap::insert(k, v)
MapInsert(m, k, v) == [x \in DOMAIN m \cup {k} |-> IF x = k THEN v ELSE m[x]]

\* the empty HashMap
EmptyMap == [x \in {} |-> 0]

\* Vec::remove(index), index counted from 0 and within bounds
VecRemove(v, index) == SubSeq(v, 1, index) \o SubSeq(v, index + 2, Len(v))

\* get_channel_data: the array, 0 for None, -1 when an index is out of bounds
GetChannelData(channel_name) ==
    IF channel_name \notin DOMAIN channel_indexes THEN 0
    ELSE LET index == channel_indexes[channel_name]
         IN  IF /\ index.chunk_index < Len(arrow_data)
                /\ index.array_index < Len(arrow_data[index.chunk_index + 1])
             THEN arrow_data[index.chunk_index + 1][index.array_index + 1]
             ELSE -1

\* Mdf::new(file_name)
MdfInit ==
    /\ arrow_data = <<>>
    /\ arrow_fields = <<>>
    /\ arrow_metadata \in {("file_name" :> f) : f \in {"a.mf4", "b.dat"}}
    /\ channel_indexes = EmptyMap
    /\ mdf_stored = EmptyMap
    /\ mdf_op = [op |-> "new", names |-> {}]
    /\ mdf_ops = 0
    /\ pc_mdf = "run"

MdfIdle ==
    /\ arrow_data = <<>>
    /\ arrow_fields = <<>>
    /\ arrow_metadata = EmptyMap
    /\ channel_indexes = EmptyMap
    /\ mdf_stored = EmptyMap
    /\ mdf_op = [op |-> "none", names |-> {}]
    /\ mdf_ops = 0
    /\ pc_mdf = "idle"

\* add_channel(channel_name, data, master_channel, ..)
AddChannel ==
    /\ pc_mdf = "run"
    /\ mdf_ops < MaxMdfOps
    /\ \E channel_name \in MdfNames, data \in MdfArrays, master_channel \in MdfMasters :
          LET field_index == Len(arrow_fields)
              found == master_channel # "" /\ master_channel \in DOMAIN channel_indexes
              chunk_index == IF found THEN channel_indexes[master_channel].chunk_index
                             ELSE Len(arrow_data)
          IN  /\ arrow_fields' = Append(arrow_fields, channel_name)
              /\ arrow_data' = IF found
                               THEN [arrow_data EXCEPT ![chunk_index + 1] = Append(@, data)]
                               ELSE Append(arrow_data, <<data>>)
              /\ channel_indexes' = MapInsert(channel_indexes, channel_name,
                                        [chunk_index |-> chunk_index, array_index |-> 0,
                                         field_index |-> field_index])
              /\ mdf_stored' = MapInsert(mdf_stored, channel_name, data)
              /\ mdf_op' = [op |-> "add_channel", names |-> {channel_name}]
    /\ mdf_ops' = mdf_ops + 1
    /\ UNCHANGED <<arrow_metadata, pc_mdf>>
    /\ UNCHANGED <<infoVars, sortedVars, decodeVars, unsortedVars, namesVars, layoutVars, convVars, commentVars, mdVars, initVars, matVars, dlVars, chainVars, nilVars, maskVars, wideVars, posVars, tableVars, parVars>>

\* remove_channel(channel_name): Vec::remove panics on an index out of bounds
RemoveChannel ==
    /\ pc_mdf = "run"
    /\ mdf_ops < MaxMdfOps
    /\ \E channel_name \in MdfNames :
          /\ mdf_op' = [op |-> "remove_channel", names |-> {channel_name}]
          /\ IF channel_name \in DOMAIN channel_indexes
             THEN LET index == channel_indexes[channel_name]
                      data_ok == index.array_index < Len(arrow_data[index.chunk_index + 1])
                      field_ok == index.field_index < Len(arrow_fields)
                  IN  /\ channel_indexes' = MapRemove(channel_indexes, channel_name)
                      /\ mdf_stored' = MapRemove(mdf_stored, channel_name)
                      /\ arrow_data' =
                            IF data_ok
                            THEN [arrow_data EXCEPT ![index.chunk_index + 1] =
                                                        VecRemove(@, index.array_index)]
                            ELSE arrow_data
                      /\ arrow_fields' = IF data_ok /\ field_ok
                                         THEN VecRemove(arrow_fields, index.field_index)
                                         ELSE arrow_fields
                      /\ pc_mdf' = IF data_ok /\ field_ok THEN "run" ELSE "panic"
             ELSE UNCHANGED <<channel_indexes, mdf_stored, arrow_data, arrow_fields, pc_mdf>>
    /\ mdf_ops' = mdf_ops + 1
    /\ UNCHANGED arrow_metadata
    /\ UNCHANGED <<infoVars, sortedVars, decodeVars, unsortedVars, namesVars, layoutVars, convVars, commentVars, mdVars, initVars, matVars, dlVars, chainVars, nilVars, maskVars, wideVars, posVars, tableVars, parVars>>

\* rename_channel(channel_name, new_name)
RenameChannel ==
    /\ pc_mdf = "run"
    /\ mdf_ops < MaxMdfOps
    /\ \E channel_name \in MdfNames, new_name \in MdfNames :
          /\ mdf_op' = [op |-> "rename_channel", names |-> {channel_name, new_name}]
          /\ IF channel_name \in DOMAIN channel_indexes
             THEN /\ channel_indexes' = MapInsert(MapRemove(channel_indexes, channel_name),
                                                  new_name, channel_indexes[channel_name])
                  /\ mdf_stored' = MapInsert(MapRemove(mdf_stored, channel_name),
                                             new_name, mdf_stored[channel_name])
             ELSE UNCHANGED <<channel_indexes, mdf_stored>>
    /\ mdf_ops' = mdf_ops + 1
    /\ UNCHANGED <<arrow_data, arrow_fields, arrow_metadata, pc_mdf>>
    /\ UNCHANGED <<infoVars, sortedVars, decodeVars, unsortedVars, namesVars, layoutVars, convVars, commentVars, mdVars, initVars, matVars, dlVars, chainVars, nilVars, maskVars, wideVars, posVars, tableVars, parVars>>

\* set_channel_data(channel_name, data): indexing panics out of bounds
SetChannelData ==
    /\ pc_mdf = "run"
    /\ mdf_ops < MaxMdfOps
    /\ \E channel_name \in MdfNames, data \in MdfArrays :
          /\ mdf_op' = [op |-> "set_channel_data", names |-> {channel_name}]
          /\ IF channel_name \in DOMAIN channel_indexes
             THEN LET index == channel_indexes[channel_name]
                  IN  IF index.array_index < Len(arrow_data[index.chunk_index + 1])
                      THEN /\ arrow_data' = [arrow_data EXCEPT
                                  ![index.chunk_index + 1][index.array_index + 1] = data]
                           /\ mdf_stored' = MapInsert(mdf_stored, channel_name, data)
                           /\ UNCHANGED pc_mdf
                      ELSE /\ pc_mdf' = "panic"
                           /\ UNCHANGED <<arrow_data, mdf_stored>>
             ELSE UNCHANGED <<arrow_data, mdf_stored, pc_mdf>>
    /\ mdf_ops' = mdf_ops + 1
    /\ UNCHANGED <<arrow_fields, arrow_metadata, channel_indexes>>
    /\ UNCHANGED <<infoVars, sortedVars, decodeVars, unsortedVars, namesVars, layoutVars, convVars, commentVars, mdVars, initVars, matVars, dlVars, chainVars, nilVars, maskVars, wideVars, posVars, tableVars, parVars>>

\* clear_channel_data_from_memory(channel_names)
ClearChannelDataFromMemory ==
    /\ pc_mdf = "run"
    /\ mdf_ops < MaxMdfOps
    /\ \E channel_names \in SUBSET MdfNames :
          mdf_op' = [op |-> "clear_channel_data_from_memory", names |-> channel_names]
    /\ arrow_data' = <<>>
    /\ arrow_fields' = <<>>
    /\ arrow_metadata' = EmptyMap
    /\ channel_indexes' = EmptyMap
    /\ mdf_stored' = EmptyMap
    /\ mdf_ops' = mdf_ops + 1
    /\ UNCHANGED pc_mdf
    /\ UNCHANGED <<infoVars, sortedVars, decodeVars, unsortedVars, namesVars, layoutVars, convVars, commentVars, mdVars, initVars, matVars, dlVars, chainVars, nilVars, maskVars, wideVars, posVars, tableVars, parVars>>

(***************************************************************************)
(* read_channels_from_bytes of data_read4.rs as a parallel iteration: one  *)
(* task per channel the filter lets through, the tasks running in any      *)
(* order and interleaved record by record; record_with_invalid_data is     *)
(* false.  Fixed-length channels are UInt16.                               *)
(***************************************************************************)
\* the keys of channels, record positions, which are also pos_byte_beg
ParPositions == {0, 2, 4}

\* unique_name of the channel at record position p
ParName(p) == IF p = 0 THEN "a" ELSE IF p = 2 THEN "b" ELSE "c"

\* byte at offset o of record r (from 0) of the data chunk
ParRecordByte(r, o) == (37 * r + 11 * o + 5) % 256

\* the channels a call can be given: fixed length (cn_type 0), VLSD
\* (cn_type 1) with or without cn_data, virtual (cn_type 3); the array is
\* empty, or of cycle_count values: zeros, or 7 when already valid
ParChannel(p, shape, cycle_count) ==
    [unique_name |-> ParName(p), cn_type |-> shape.cn_type, cn_data |-> shape.cn_data,
     endian |-> (p = 2), pos_byte_beg |-> p, n_bytes |-> 2,
     channel_data_valid |-> (shape.state = "valid"),
     data |-> IF shape.state = "empty" THEN <<>>
              ELSE [j \in 1..cycle_count |-> IF shape.state = "valid" THEN 7 ELSE 0]]

ParShapes ==
    {s \in [cn_type : {0, 1, 3}, cn_data : {0, 8}, state : {"new", "valid", "empty"}] :
        s.cn_type # 1 => s.cn_data = 0}

\* mutant of ParSelected: channel_data_valid is not looked at
ParSelected_AnyValid(chan, names) ==
    /\ chan.unique_name \in names
    /\ chan.data # <<>>

\* the closure of filter(): the channel is requested, its array is not
\* empty and it is not valid yet
ParSelected(chan, names) ==
    /\ chan.unique_name \in names
    /\ chan.data # <<>>
    /\ ~chan.channel_data_valid

\* u16::from_be_bytes or u16::from_le_bytes of the 2 bytes of the channel
\* in record r
ParU16(chan, r) ==
    LET b0 == ParRecordByte(r, chan.pos_byte_beg)
        b1 == ParRecordByte(r, chan.pos_byte_beg + 1)
    IN  IF chan.endian THEN 256 * b0 + b1 ELSE b0 + 256 * b1

ParInit ==
    /\ par_chunk \in [previous_index : {0, 1}, n_records : 1..MaxParRecords]
    /\ \E shapes \in [ParPositions -> ParShapes] :
          par_cn = [p \in ParPositions |->
                       ParChannel(p, shapes[p],
                                  par_chunk.previous_index + par_chunk.n_records)]
    /\ par_names \in SUBSET {ParName(p) : p \in ParPositions}
    /\ par_data = [p \in ParPositions |-> par_cn[p].data]
    /\ par_task = [p \in ParPositions |-> [st |-> "none", i |-> 0]]
    /\ par_vlsd = <<>>
    /\ par_result = <<>>
    /\ pc_par = "start"

ParIdle ==
    /\ par_cn = <<>>
    /\ par_names = {}
    /\ par_chunk = [previous_index |-> 0, n_records |-> 0]
    /\ par_data = <<>>
    /\ par_task = <<>>
    /\ par_vlsd = <<>>
    /\ par_result = <<>>
    /\ pc_par = "idle"

\* par_iter_mut().filter(..): a task for every channel the filter lets through
ParFilter ==
    /\ pc_par = "start"
    /\ par_task' = [p \in ParPositions |->
                       [st |-> IF ParSelected(par_cn[p], par_names) THEN "running" ELSE "out",
                        i |-> 0]]
    /\ pc_par' = "forked"
    /\ UNCHANGED <<par_cn, par_names, par_chunk, par_data, par_vlsd, par_result>>
    /\ UNCHANGED <<infoVars, sortedVars, decodeVars, unsortedVars, namesVars, layoutVars, convVars, commentVars, mdVars, initVars, matVars, dlVars, chainVars, nilVars, maskVars, wideVars, posVars, tableVars, mdfVars>>

\* the task of a fixed-length channel (cn_type 0, 2, 4, 5) decodes its next
\* record: data[i + previous_index] = value
ParDecodeRecord ==
    /\ pc_par = "forked"
    /\ \E p \in ParPositions :
          /\ par_task[p].st = "running"
          /\ par_cn[p].cn_type \in {0, 2, 4, 5}
          /\ LET i == par_task[p].i
             IN  /\ par_data' = [par_data EXCEPT
                        ![p][i + par_chunk.previous_index + 1] = ParU16(par_cn[p], i)]
                 /\ par_task' = [par_task EXCEPT
                        ![p] = [st |-> IF i + 1 = par_chunk.n_records THEN "done"
                                       ELSE "running",
                                i |-> i + 1]]
    /\ UNCHANGED <<par_cn, par_names, par_chunk, par_vlsd, par_result, pc_par>>
    /\ UNCHANGED <<infoVars, sortedVars, decodeVars, unsortedVars, namesVars, layoutVars, convVars, commentVars, mdVars, initVars, matVars, dlVars, chainVars, nilVars, maskVars, wideVars, posVars, tableVars, mdfVars>>

\* the task of another channel: a VLSD channel (cn_type 1) with cn_data
\* locks vlsd_channels and pushes its record position
ParOtherChannel ==
    /\ pc_par = "forked"
    /\ \E p \in ParPositions :
          /\ par_task[p].st = "running"
          /\ par_cn[p].cn_type \notin {0, 2, 4, 5}
          /\ par_vlsd' = IF par_cn[p].cn_type = 1 /\ par_cn[p].cn_data # 0
                         THEN Append(par_vlsd, p) ELSE par_vlsd
          /\ par_task' = [par_task EXCEPT ![p] = [st |-> "done", i |-> 0]]
    /\ UNCHANGED <<par_cn, par_names, par_chunk, par_data, par_result, pc_par>>
    /\ UNCHANGED <<infoVars, sortedVars, decodeVars, unsortedVars, namesVars, layoutVars, convVars, commentVars, mdVars, initVars, matVars, dlVars, chainVars, nilVars, maskVars, wideVars, posVars, tableVars, mdfVars>>

\* every task has ended: lock.clone() is returned
ParReturn ==
    /\ pc_par = "forked"
    /\ \A p \in ParPositions : par_task[p].st # "running"
    /\ par_result' = par_vlsd
    /\ pc_par' = "returned"
    /\ UNCHANGED <<par_cn, par_names, par_chunk, par_data, par_task, par_vlsd>>
    /\ UNCHANGED <<infoVars, sortedVars, decodeVars, unsortedVars, namesVars, layoutVars, convVars, commentVars, mdVars, initVars, matVars, dlVars, chainVars, nilVars, maskVars, wideVars, posVars, tableVars, mdfVars>>

InfoInit ==
    /\ id_buf \in (0..255) \X (0..MaxIdVerHi)
    /\ mdf_info = NoInfo
    /\ version = NoVersion

InfoIdle ==
    /\ id_buf = <<0, 0>>
    /\ mdf_info = NoInfo
    /\ version = NoVersion

\* MdfInfo::new(file_name)
MdfInfoNew ==
    /\ mdf_info = NoInfo
    /\ LET id_ver == IdBlock_id_ver(id_buf)
       IN  mdf_info' = [variant |-> MdfInfoVariant(id_ver), id_ver |-> id_ver]
    /\ UNCHANGED <<id_buf, version>>
    /\ UNCHANGED <<sortedVars, decodeVars, unsortedVars, namesVars, layoutVars, convVars, commentVars, mdVars, initVars, matVars, dlVars, chainVars, nilVars, maskVars, wideVars, posVars, tableVars, mdfVars, parVars>>

\* MdfInfo::get_version(&mut self)
GetVersion ==
    /\ mdf_info # NoInfo
    /\ version = NoVersion
    /\ version' = mdf_info.id_ver
    /\ UNCHANGED <<id_buf, mdf_info>>
    /\ UNCHANGED <<sortedVars, decodeVars, unsortedVars, namesVars, layoutVars, convVars, commentVars, mdVars, initVars, matVars, dlVars, chainVars, nilVars, maskVars, wideVars, posVars, tableVars, mdfVars, parVars>>

InitInfo == InfoInit /\ SortedIdle /\ DecodeIdle /\ UnsortedIdle /\ NamesIdle /\ LayoutIdle /\ ConvIdle /\ CommentIdle /\ MdIdle /\ DataInitIdle /\ MatIdle /\ DlIdle /\ ChainIdle /\ NilIdle /\ MaskIdle /\ WideIdle /\ PosIdle /\ TableIdle /\ MdfIdle /\ ParIdle

NextInfo == MdfInfoNew \/ GetVersion

SpecInfo == InitInfo /\ [][NextInfo]_vars

InitSorted == SortedInit /\ InfoIdle /\ DecodeIdle /\ UnsortedIdle /\ NamesIdle /\ LayoutIdle /\ ConvIdle /\ CommentIdle /\ MdIdle /\ DataInitIdle /\ MatIdle /\ DlIdle /\ ChainIdle /\ NilIdle /\ MaskIdle /\ WideIdle /\ PosIdle /\ TableIdle /\ MdfIdle /\ ParIdle

NextSorted ==
    \/ ReadDataDT
    \/ ReadDataDV
    \/ ReadChunk
    \/ EndReadAllChannelsSorted
    \/ ReadDataDZ

SpecSorted == InitSorted /\ [][NextSorted]_vars

InitDecode == DecodeInit /\ InfoIdle /\ SortedIdle /\ UnsortedIdle /\ NamesIdle /\ LayoutIdle /\ ConvIdle /\ CommentIdle /\ MdIdle /\ DataInitIdle /\ MatIdle /\ DlIdle /\ ChainIdle /\ NilIdle /\ MaskIdle /\ WideIdle /\ PosIdle /\ TableIdle /\ MdfIdle /\ ParIdle

NextDecode == DecodeWhole \/ DecodeSubChunk

SpecDecode == InitDecode /\ [][NextDecode]_vars

InitUnsorted == UnsortedInit /\ InfoIdle /\ SortedIdle /\ DecodeIdle /\ NamesIdle /\ LayoutIdle /\ ConvIdle /\ CommentIdle /\ MdIdle /\ DataInitIdle /\ MatIdle /\ DlIdle /\ ChainIdle /\ NilIdle /\ MaskIdle /\ WideIdle /\ PosIdle /\ TableIdle /\ MdfIdle /\ ParIdle

NextUnsorted ==
    \/ ReadDataUnsortedDZ
    \/ ReadDataUnsortedDT
    \/ ReadUnsortedChunk
    \/ EndReadUnsorted
    \/ ReadDataUnsortedDL
    \/ ParserDl4UnsortedBlock
    \/ ParserDl4UnsortedEnd

SpecUnsorted == InitUnsorted /\ [][NextUnsorted]_vars

InitNames == NamesInit /\ InfoIdle /\ SortedIdle /\ DecodeIdle /\ UnsortedIdle /\ LayoutIdle /\ ConvIdle /\ CommentIdle /\ MdIdle /\ DataInitIdle /\ MatIdle /\ DlIdle /\ ChainIdle /\ NilIdle /\ MaskIdle /\ WideIdle /\ PosIdle /\ TableIdle /\ MdfIdle /\ ParIdle

NextNames ==
    \/ InfoPhase3
    \/ GetChannelMaster

SpecNames == InitNames /\ [][NextNames]_vars

InitRerun == RerunInit /\ InfoIdle /\ SortedIdle /\ DecodeIdle /\ UnsortedIdle /\ LayoutIdle /\ ConvIdle /\ CommentIdle /\ MdIdle /\ DataInitIdle /\ MatIdle /\ DlIdle /\ ChainIdle /\ NilIdle /\ MaskIdle /\ WideIdle /\ PosIdle /\ TableIdle /\ MdfIdle /\ ParIdle

NextRerun ==
    \/ InfoPhase3
    \/ InfoPhase3Again

SpecRerun == InitRerun /\ [][NextRerun]_vars

InitLayout == LayoutInit /\ InfoIdle /\ SortedIdle /\ DecodeIdle /\ UnsortedIdle /\ NamesIdle /\ ConvIdle /\ CommentIdle /\ MdIdle /\ DataInitIdle /\ MatIdle /\ DlIdle /\ ChainIdle /\ NilIdle /\ MaskIdle /\ WideIdle /\ PosIdle /\ TableIdle /\ MdfIdle /\ ParIdle

NextLayout ==
    \/ ParseCn3Block

SpecLayout == InitLayout /\ [][NextLayout]_vars

InitConv == ConvInit /\ InfoIdle /\ SortedIdle /\ DecodeIdle /\ UnsortedIdle /\ NamesIdle /\ LayoutIdle /\ CommentIdle /\ MdIdle /\ DataInitIdle /\ MatIdle /\ DlIdle /\ ChainIdle /\ NilIdle /\ MaskIdle /\ WideIdle /\ PosIdle /\ TableIdle /\ MdfIdle /\ ParIdle

NextConv ==
    \/ ConvertLinear

SpecConv == InitConv /\ [][NextConv]_vars

InitRational == RationalInit /\ InfoIdle /\ SortedIdle /\ DecodeIdle /\ UnsortedIdle /\ NamesIdle /\ LayoutIdle /\ CommentIdle /\ MdIdle /\ DataInitIdle /\ MatIdle /\ DlIdle /\ ChainIdle /\ NilIdle /\ MaskIdle /\ WideIdle /\ PosIdle /\ TableIdle /\ MdfIdle /\ ParIdle

NextRational ==
    \/ ConvertRational

SpecRational == InitRational /\ [][NextRational]_vars

InitComment == CommentInit /\ InfoIdle /\ SortedIdle /\ DecodeIdle /\ UnsortedIdle /\ NamesIdle /\ LayoutIdle /\ ConvIdle /\ MdIdle /\ DataInitIdle /\ MatIdle /\ DlIdle /\ ChainIdle /\ NilIdle /\ MaskIdle /\ WideIdle /\ PosIdle /\ TableIdle /\ MdfIdle /\ ParIdle

NextComment ==
    \/ ReadHdComment
    \/ ReadFhComment

SpecComment == InitComment /\ [][NextComment]_vars

InitMd == MdInit /\ InfoIdle /\ SortedIdle /\ DecodeIdle /\ UnsortedIdle /\ NamesIdle /\ LayoutIdle /\ ConvIdle /\ CommentIdle /\ DataInitIdle /\ MatIdle /\ DlIdle /\ ChainIdle /\ NilIdle /\ MaskIdle /\ WideIdle /\ PosIdle /\ TableIdle /\ MdfIdle /\ ParIdle

NextMd ==
    \/ ParseMd
    \/ ParseTx

SpecMd == InitMd /\ [][NextMd]_vars

InitDataInit == DataInitInit /\ InfoIdle /\ SortedIdle /\ DecodeIdle /\ UnsortedIdle /\ NamesIdle /\ LayoutIdle /\ ConvIdle /\ CommentIdle /\ MdIdle /\ MatIdle /\ DlIdle /\ ChainIdle /\ NilIdle /\ MaskIdle /\ WideIdle /\ PosIdle /\ TableIdle /\ MdfIdle /\ ParIdle

NextDataInit ==
    \/ InitialiseArray
    \/ ConvertInitialised

SpecDataInit == InitDataInit /\ [][NextDataInit]_vars

InitMat == MatInit /\ InfoIdle /\ SortedIdle /\ DecodeIdle /\ UnsortedIdle /\ NamesIdle /\ LayoutIdle /\ ConvIdle /\ CommentIdle /\ MdIdle /\ DataInitIdle /\ DlIdle /\ ChainIdle /\ NilIdle /\ MaskIdle /\ WideIdle /\ PosIdle /\ TableIdle /\ MdfIdle /\ ParIdle

NextMat ==
    \/ MatReadData
    \/ MatConvertAllChannels

SpecMat == InitMat /\ [][NextMat]_vars

InitDl == DlInit /\ InfoIdle /\ SortedIdle /\ DecodeIdle /\ UnsortedIdle /\ NamesIdle /\ LayoutIdle /\ ConvIdle /\ CommentIdle /\ MdIdle /\ DataInitIdle /\ MatIdle /\ ChainIdle /\ NilIdle /\ MaskIdle /\ WideIdle /\ PosIdle /\ TableIdle /\ MdfIdle /\ ParIdle

NextDl ==
    \/ ParserDl4SortedStart
    \/ ParserDl4SortedBlock
    \/ ParserDl4SortedEnd

SpecDl == InitDl /\ [][NextDl]_vars

InitChain == ChainInit /\ InfoIdle /\ SortedIdle /\ DecodeIdle /\ UnsortedIdle /\ NamesIdle /\ LayoutIdle /\ ConvIdle /\ CommentIdle /\ MdIdle /\ DataInitIdle /\ MatIdle /\ DlIdle /\ NilIdle /\ MaskIdle /\ WideIdle /\ PosIdle /\ TableIdle /\ MdfIdle /\ ParIdle

NextChain ==
    \/ ParserDl4First
    \/ ParserDl4Next
    \/ ParserDl4Cut
    \/ ParserDl4Return

SpecChain == InitChain /\ [][NextChain]_vars

InitNil == NilInit /\ InfoIdle /\ SortedIdle /\ DecodeIdle /\ UnsortedIdle /\ NamesIdle /\ LayoutIdle /\ ConvIdle /\ CommentIdle /\ MdIdle /\ DataInitIdle /\ MatIdle /\ DlIdle /\ ChainIdle /\ MaskIdle /\ WideIdle /\ PosIdle /\ TableIdle /\ MdfIdle /\ ParIdle

NextNil ==
    \/ Hd3CommentParser
    \/ ParseCn3BlockLinks
    \/ EndParseCn3
    \/ GetChannelUnits

SpecNil == InitNil /\ [][NextNil]_vars

InitMask == MaskInit /\ InfoIdle /\ SortedIdle /\ DecodeIdle /\ UnsortedIdle /\ NamesIdle /\ LayoutIdle /\ ConvIdle /\ CommentIdle /\ MdIdle /\ DataInitIdle /\ MatIdle /\ DlIdle /\ ChainIdle /\ NilIdle /\ WideIdle /\ PosIdle /\ TableIdle /\ MdfIdle /\ ParIdle

NextMask ==
    \/ ApplyBitMaskOffset

SpecMask == InitMask /\ [][NextMask]_vars

InitWide == WideInit /\ InfoIdle /\ SortedIdle /\ DecodeIdle /\ UnsortedIdle /\ NamesIdle /\ LayoutIdle /\ ConvIdle /\ CommentIdle /\ MdIdle /\ DataInitIdle /\ MatIdle /\ DlIdle /\ ChainIdle /\ NilIdle /\ MaskIdle /\ PosIdle /\ TableIdle /\ MdfIdle /\ ParIdle

NextWide ==
    \/ ReadChannelsFromBytesWide
    \/ ReadOneChannelArrayWide

SpecWide == InitWide /\ [][NextWide]_vars

InitPos == PosInit /\ InfoIdle /\ SortedIdle /\ DecodeIdle /\ UnsortedIdle /\ NamesIdle /\ LayoutIdle /\ ConvIdle /\ CommentIdle /\ MdIdle /\ DataInitIdle /\ MatIdle /\ DlIdle /\ ChainIdle /\ NilIdle /\ MaskIdle /\ WideIdle /\ TableIdle /\ MdfIdle /\ ParIdle

NextPos ==
    \/ MdfReader4Seek
    \/ ReadDataDtPos
    \/ ReadDataDvPos
    \/ MdfReader4End

SpecPos == InitPos /\ [][NextPos]_vars

InitTable == TableInit /\ InfoIdle /\ SortedIdle /\ DecodeIdle /\ UnsortedIdle /\ NamesIdle /\ LayoutIdle /\ ConvIdle /\ CommentIdle /\ MdIdle /\ DataInitIdle /\ MatIdle /\ DlIdle /\ ChainIdle /\ NilIdle /\ MaskIdle /\ WideIdle /\ PosIdle /\ MdfIdle /\ ParIdle

NextTable ==
    \/ ParseCc3Table
    \/ ParseCc3TextRow
    \/ ParseCc3RangeRow
    \/ ParseCc3RangeText
    \/ ParseCc3TableInsert

SpecTable == InitTable /\ [][NextTable]_vars

InitMdf == MdfInit /\ InfoIdle /\ SortedIdle /\ DecodeIdle /\ UnsortedIdle /\ NamesIdle /\ LayoutIdle /\ ConvIdle /\ CommentIdle /\ MdIdle /\ DataInitIdle /\ MatIdle /\ DlIdle /\ ChainIdle /\ NilIdle /\ MaskIdle /\ WideIdle /\ PosIdle /\ TableIdle /\ ParIdle

NextMdf ==
    \/ AddChannel
    \/ RemoveChannel
    \/ RenameChannel
    \/ SetChannelData
    \/ ClearChannelDataFromMemory

SpecMdf == InitMdf /\ [][NextMdf]_vars

InitPar == ParInit /\ InfoIdle /\ SortedIdle /\ DecodeIdle /\ UnsortedIdle /\ NamesIdle /\ LayoutIdle /\ ConvIdle /\ CommentIdle /\ MdIdle /\ DataInitIdle /\ MatIdle /\ DlIdle /\ ChainIdle /\ NilIdle /\ MaskIdle /\ WideIdle /\ PosIdle /\ TableIdle /\ MdfIdle

NextPar ==
    \/ ParFilter
    \/ ParDecodeRecord
    \/ ParOtherChannel
    \/ ParReturn

SpecPar == InitPar /\ [][NextPar]_vars

(***************************************************************************)
(* C1: MdfInfo::new returns the V3 variant exactly when the id_ver read    *)
(* from the identification block is below 400 and the V4 variant exactly   *)
(* when it is 400 or more, and get_version returns that id_ver.            *)
(***************************************************************************)
C1_VersionSelectsVariant ==
    mdf_info # NoInfo =>
        /\ (mdf_info.variant = "V3") <=> (id_buf[1] + 256 * id_buf[2] < 400)
        /\ (mdf_info.variant = "V4") <=> (id_buf[1] + 256 * id_buf[2] >= 400)
        /\ version # NoVersion => version = id_buf[1] + 256 * id_buf[2]

\* an MDF 4.00 file, the boundary version, has been opened and its version read
C1_Witness ==
    /\ mdf_info.variant = "V4"
    /\ version = 400

RECURSIVE SumRecords(_, _)
SumRecords(cs, n) == IF n = 0 THEN 0 ELSE cs[n][1] + SumRecords(cs, n - 1)

\* value that record i of the data block holds for the channel at record position k
RecordValue(k, i) == ChannelValue(PayloadBytes(seed), cn[k], i * channel_group.record_length)

(***************************************************************************)
(* C2: for a sorted group read from a ##DT or ##DV block, the chunks of    *)
(* generate_chunks count cg_cycle_count records in total and each has      *)
(* record_length times its record count bytes; each chunk starts at a      *)
(* record boundary of the block, and when read_all_channels_sorted is over *)
(* it has decoded cg_cycle_count records and row i of every channel array  *)
(* holds the value of record i.                                            *)
(***************************************************************************)
C2_ChunksCoverAllRecords ==
    (block_id \in {"##DT", "##DV"} /\ pc_sorted \in {"chunks", "done"}) =>
        /\ SumRecords(chunks, Len(chunks)) = channel_group.cg_cycle_count
        /\ \A j \in 1..Len(chunks) :
              chunks[j][2] = channel_group.record_length * chunks[j][1]
        /\ rdr_pos = channel_group.record_length * previous_index
        /\ \A k \in DOMAIN cn : \A i \in 0..(previous_index - 1) :
              cn_data[k][i] = RecordValue(k, i)
        /\ pc_sorted = "done" =>
              /\ previous_index = channel_group.cg_cycle_count
              /\ \A k \in DOMAIN cn :
                    DOMAIN cn_data[k] = 0..(channel_group.cg_cycle_count - 1)

\* a group whose records are spread over three chunks, the last one made of
\* the records left by the rounding, has been read to the end
C2_Witness ==
    /\ block_id = "##DT"
    /\ pc_sorted = "done"
    /\ Len(chunks) >= 3
    /\ chunks[Len(chunks)][1] # chunks[1][1]
    /\ previous_index = channel_group.cg_cycle_count

(***************************************************************************)
(* C4: when the records of a sorted group come from a single ##DZ block,   *)
(* read_all_channels_sorted_from_bytes leaves the value of record i at row *)
(* i of each channel array, for every i < cg_cycle_count.                  *)
(***************************************************************************)
C4_DzRowsInOrder ==
    (block_id = "##DZ" /\ pc_sorted = "done") =>
        \A k \in DOMAIN cn : \A i \in 0..(channel_group.cg_cycle_count - 1) :
            cn_data[k][i] = RecordValue(k, i)

(***************************************************************************)
(* C3: decoding the N records of a sorted group by one call of             *)
(* read_channels_from_bytes with previous_index = 0 and decoding them by   *)
(* calls on consecutive sub-chunks, each with previous_index the number of *)
(* records already decoded, end with the same channel array, for every     *)
(* ChannelData variant.                                                    *)
(***************************************************************************)
C3_ChunkedDecodeEquivalence ==
    (dec_whole_done /\ dec_index = dec_records /\ dec_cn.kind # "none") =>
        dec_parts = dec_whole

\* position in ids of the (k+1)-th record with id g, searched from j on
RECURSIVE Occurrence(_, _, _, _)
Occurrence(ids, g, k, j) ==
    IF ids[j] = g
    THEN (IF k = 0 THEN j ELSE Occurrence(ids, g, k - 1, j + 1))
    ELSE Occurrence(ids, g, k, j + 1)

\* every record of the block bears the id of a channel group, the groups have
\* distinct record lengths, and the block was handed over in one buffer
C5_Precondition ==
    /\ \A j \in 1..Len(un_ids) : un_ids[j] \in DOMAIN un_dg.cg
    /\ \A g, h \in DOMAIN un_dg.cg :
          g # h => un_dg.cg[g].record_length # un_dg.cg[h].record_length
    /\ un_block_id \in {"##DT", "##DZ"}
    /\ InputLen(un_input) <= CHUNK_SIZE_READING

(***************************************************************************)
(* C5: when one buffer holds interleaved complete records of several       *)
(* fixed-length channel groups with distinct record ids and lengths, the   *)
(* k-th record bearing the id of group g ends at row k of the channel      *)
(* arrays of group g, and no byte of the buffer is left over.              *)
(***************************************************************************)
C5_UnsortedDemux ==
    (pc_unsorted = "done" /\ C5_Precondition) =>
        /\ un_data = <<>>
        /\ \A g \in DOMAIN un_dg.cg :
              /\ \A c \in DOMAIN un_dg.cg[g].cn :
                    DOMAIN un_cn_data[g][c] = 0..(CountId(un_ids, g) - 1)
              /\ \A k \in 0..(CountId(un_ids, g) - 1) : \A c \in DOMAIN un_dg.cg[g].cn :
                    un_cn_data[g][c][k] =
                        InputByte(un_dg.dg_rec_id_size, un_input,
                                  RecordOffset(un_input, Occurrence(un_ids, g, k, 1))
                                  + un_dg.cg[g].cn[c].pos_byte_beg)

\* a block in which records of group 2 stand between two records of group 1
\* has been demultiplexed
C5_Witness ==
    /\ pc_unsorted = "done"
    /\ C5_Precondition
    /\ Len(un_ids) >= 4
    /\ un_ids[1] = 1 /\ un_ids[2] = 2 /\ un_ids[3] = 1 /\ un_ids[4] = 2

(***************************************************************************)
(* C6: after build_channel_db3 the unique names of the channels of the     *)
(* file are pairwise distinct and channel_names_set has one entry per      *)
(* channel, whatever the number of channels of the same name and their     *)
(* channel extension blocks.                                               *)
(***************************************************************************)
C6_UniqueNames ==
    Len(runs_unique_name) >= 1 =>
        /\ \A k, l \in DOMAIN cn3 : k # l => unique_name[k] # unique_name[l]
        /\ Cardinality(DOMAIN channel_names_set) = Len(cn3)

\* channels of cn3 that stand before the k-th in the file and bear its name
EarlierSameName(k) == {l \in 1..(k - 1) : cn3[l].name = cn3[k].name}

(***************************************************************************)
(* C7: two runs of the info phase on the same file leave the same          *)
(* unique_name on every channel, and among the channels of a same name     *)
(* the first of the file keeps the bare name and every later one has a     *)
(* suffix.                                                                 *)
(***************************************************************************)
C7_DeterministicNames ==
    /\ Len(runs_unique_name) = 2 => runs_unique_name[1] = runs_unique_name[2]
    /\ \A r \in DOMAIN runs_unique_name : \A k \in DOMAIN cn3 :
          (runs_unique_name[r][k] = cn3[k].name) <=> (EarlierSameName(k) = {})

\* channels of type master of the group at block_position
MastersOf(block_position) ==
    {k \in DOMAIN cn3 : cn3[k].cg_block_position = block_position /\ cn3[k].cn_type # 0}

(***************************************************************************)
(* C8: after build_channel_db3 every entry of channel_names_set has the    *)
(* master_channel_name of the channel group of its channel: the unique     *)
(* name of a channel of the group with cn_type other than 0 when there is  *)
(* one, "master_" followed by the block position of the group otherwise;   *)
(* get_channel_master returns that name.                                   *)
(***************************************************************************)
C8_MasterNames ==
    Len(runs_unique_name) >= 1 =>
        /\ \A name \in DOMAIN channel_names_set :
              LET id == channel_names_set[name]
                  block_position == id.cg[1]
              IN  /\ id.master = master_channel_name[block_position]
                  /\ IF MastersOf(block_position) # {}
                     THEN \E k \in MastersOf(block_position) : id.master = unique_name[k]
                     ELSE id.master = "master_" \o ToString(block_position)
        /\ master_query \in DOMAIN channel_names_set =>
              master = channel_names_set[master_query].master

\* get_channel_master has answered with a default master name for a file
\* that also has a group with a master channel
C8_Witness ==
    /\ Len(runs_unique_name) >= 1
    /\ master_query \in DOMAIN channel_names_set
    /\ master = "master_1200"
    /\ \E name \in DOMAIN channel_names_set : channel_names_set[name].master = "t"

(***************************************************************************)
(* C9: the n_bytes bytes from pos_byte_beg on hold every bit of the        *)
(* signal of a version 3 channel, that is the bits cn_bit_offset to        *)
(* cn_bit_offset + cn_bit_count - 1 of the record after its record id,     *)
(* whatever cn_bit_offset and cn_bit_count are.                            *)
(***************************************************************************)
C9_BytesCoverBits ==
    cn_layout # NoLayout =>
        \A bit \in cn_block2.cn_bit_offset..
                   (cn_block2.cn_bit_offset + cn_block2.cn_bit_count - 1) :
            /\ cn_layout.pos_byte_beg <= bit \div 8 + record_id_size
            /\ bit \div 8 + record_id_size < cn_layout.pos_byte_beg + cn_layout.n_bytes

\* p1 is 0 and p2 is within 1e-12 of 1
IdentityPair == cc_val[0].half = 0 /\ cc_val[0].tiny = 0 /\ cc_val[1].half = 2
                /\ 0 - 10 < cc_val[1].tiny /\ cc_val[1].tiny < 10

(***************************************************************************)
(* C10: linear_conversion leaves the data of a numeric channel as it was   *)
(* for the identity pair (p1 = 0 and p2 within 1e-12 of 1) and for every   *)
(* other pair replaces it by the Float64 array of raw * p2 + p1.           *)
(***************************************************************************)
C10_LinearConversion ==
    (pc_conv = "converted" /\ raw_data.kind \in RealKinds) =>
        IF IdentityPair
        THEN conv_cn.data = ChannelDataOf(raw_data.kind, raw_data.raw)
        ELSE /\ conv_cn.data.kind = "Float64"
             /\ conv_cn.data.a =
                   [i \in DOMAIN raw_data.raw |->
                       [half |-> raw_data.raw[i] * cc_val[1].half + cc_val[0].half,
                        tiny |-> raw_data.raw[i] * cc_val[1].tiny + cc_val[0].tiny]]

\* the f64 quotients x and y are the same number (or both the same
\* infinity, or both NaN)
SameQuotient(x, y) ==
    IF x.den = 0 \/ y.den = 0
    THEN /\ x.den = 0 /\ y.den = 0
         /\ (x.num > 0) = (y.num > 0)
         /\ (x.num < 0) = (y.num < 0)
    ELSE x.num * y.den = y.num * x.den

(***************************************************************************)
(* C11: rational_conversion sets every element of a numeric channel array  *)
(* to (raw^2 * p1 + raw * p2 + p3) / (raw^2 * p4 + raw * p5 + p6), as      *)
(* Float64, for integer and floating point arrays alike; in particular     *)
(* the coefficients (0,1,0,0,0,1) give the raw value.                      *)
(***************************************************************************)
C11_RationalConversion ==
    (pc_conv = "converted" /\ raw_data.kind \in RealKinds /\ DOMAIN cc_val = 0..5) =>
        /\ conv_cn.data.kind = "Float64"
        /\ \A i \in DOMAIN raw_data.raw :
              LET m == raw_data.raw[i]
              IN  SameQuotient(conv_cn.data.a[i],
                      [num |-> (m * m) * (cc_val[0].half \div 2) + m * (cc_val[1].half \div 2)
                                   + (cc_val[2].half \div 2),
                       den |-> (m * m) * (cc_val[3].half \div 2) + m * (cc_val[4].half \div 2)
                                   + (cc_val[5].half \div 2)])

\* the block is an MD block whose XML is not well formed
Malformed(block) == block.hdr_id = "##MD" /\ ~block.comment.well_formed

(***************************************************************************)
(* C12: a comment block with malformed XML does not abort the info phase:  *)
(* hd4_comment_parser and parse_fh_comment return an empty comment map     *)
(* for it and parsing goes on with the next block.                         *)
(***************************************************************************)
C12_MalformedXmlTolerated ==
    /\ (pc_comment \notin {"idle", "hd"} /\ Malformed(hd_md_block)) =>
          pc_comment # "panic" /\ hd_comment = <<>>
    /\ (pc_comment = "next" /\ Malformed(fh_md_block)) => fh_comment = <<>>

(***************************************************************************)
(* C13: a read of a metadata block that obtains fewer bytes than the       *)
(* block declares is fatal: parse_md and parse_tx return a comment only    *)
(* when the read obtained all the bytes of text the block header declares. *)
(***************************************************************************)
C13_ShortReadIsFatal ==
    pc_md = "returned" =>
        md_n_read = md_hdr_len - (IF md_version = 4 THEN 24 ELSE 4)

(***************************************************************************)
(* C15: every chunk of generate_chunks is at most CHUNK_SIZE_READING bytes *)
(* long, whatever the record length and the cycle count, so the            *)
(* data_chunk buffer of read_all_channels_sorted never exceeds it.         *)
(***************************************************************************)
C15_ChunksBounded ==
    pc_sorted \in {"chunks", "done"} =>
        \A j \in 1..Len(chunks) : chunks[j][2] <= 524288

(***************************************************************************)
(* C16: for a virtual channel (cn_type 3 or 6) data_init returns the       *)
(* index array 0, 1, ..., cycle_count - 1 as UInt64, and a linear          *)
(* conversion of factor p2 with p1 = 0 then gives 0, p2, 2 * p2, ...       *)
(***************************************************************************)
C16_VirtualChannelIndex ==
    init_cn.cn_type \in {3, 6} =>
        /\ pc_init = "initialised" =>
              init_cn.data = [kind |-> "UInt64",
                              a |-> [i \in 1..init_cycle_count |-> i - 1]]
        /\ (pc_init = "converted" /\ init_cc_val[0] = [half |-> 0, tiny |-> 0]
                /\ init_cc_val[1] = [half |-> 3, tiny |-> 0]) =>
              init_cn.data = [kind |-> "Float64",
                              a |-> [i \in 1..init_cycle_count |->
                                        [half |-> 3 * (i - 1), tiny |-> 0]]]

(***************************************************************************)
(* C14: a channel whose channel type, data type, conversion or data block  *)
(* kind is not implemented does not stop the materialize phase: the call   *)
(* returns normally and every other channel of the data group is decoded   *)
(* and converted.                                                          *)
(***************************************************************************)
C14_ErrorsIsolated ==
    /\ pc_mat # "panic"
    /\ pc_mat = "returned" =>
          \A k \in DOMAIN mat_cn :
              (mat_cn[k].cn_type = 0 /\ mat_cn[k].cc_type = 0 /\ mat_block_id = "##DT") =>
                  mat_cn[k].data.a = <<IF mat_cn[k].data.kind = "Complex16"
                                       THEN <<3, 3>> ELSE 3>>

(***************************************************************************)
(* C17: parser_dl4_sorted decodes every record of the concatenated         *)
(* payload of the data blocks once and at its absolute row, wherever the   *)
(* block boundaries are: after the last block previous_index is the        *)
(* number of complete records of the payload and row i holds record i.     *)
(***************************************************************************)
C17_DataListRecords ==
    pc_dl = "done" =>
        /\ dl_previous_index = dl_cg.cg_cycle_count
        /\ \A k \in DOMAIN dl_cg.cn : \A i \in 0..(dl_cg.cg_cycle_count - 1) :
              dl_cn_data[k][i] =
                  ChannelValue(PayloadBytes(0), dl_cg.cn[k], i * dl_cg.record_length)

\* every record of the block bears the id of a channel group
KnownIds == \A j \in 1..Len(un_ids) : un_ids[j] \in DOMAIN un_dg.cg

\* the block is processed in several chunks: a ##DT block larger than
\* CHUNK_SIZE_READING, or the blocks of a data list
SeveralChunks ==
    \/ un_block_id = "##DT" /\ InputLen(un_input) > CHUNK_SIZE_READING
    \/ un_block_id = "##DL" /\ Len(un_data_blocks) >= 2

(***************************************************************************)
(* C18: when an unsorted block is processed in several chunks (a ##DT      *)
(* block larger than CHUNK_SIZE_READING, or several blocks of a data       *)
(* list), the k-th record bearing the id of group g, counted over all      *)
(* chunks, ends at row k of the channel arrays of group g.                 *)
(***************************************************************************)
C18_RowsOverChunks ==
    (pc_unsorted = "done" /\ KnownIds /\ SeveralChunks) =>
        \A g \in DOMAIN un_dg.cg :
            \A k \in 0..(CountId(un_ids, g) - 1) : \A c \in DOMAIN un_dg.cg[g].cn :
                un_cn_data[g][c][k] =
                    InputByte(un_dg.dg_rec_id_size, un_input,
                              RecordOffset(un_input, Occurrence(un_ids, g, k, 1))
                              + un_dg.cg[g].cn[c].pos_byte_beg)

(***************************************************************************)
(* C19: in read_all_channels_unsorted the bytes of a record cut by a chunk *)
(* boundary are kept and put in front of the next chunk: the bytes read    *)
(* from the block so far are whole records followed by the bytes kept, so  *)
(* the bytes kept start at a record boundary.                              *)
(***************************************************************************)
C19_CutRecordCarriedOver ==
    (un_block_id = "##DT" /\ pc_unsorted \in {"chunks", "hang", "done"} /\ KnownIds) =>
        \E m \in 1..(Len(un_input) + 1) :
            RecordOffset(un_input, m) = (un_position - 24) - VecLen(un_data)

(***************************************************************************)
(* C20: read_all_channels_unsorted_from_bytes ends for every buffer and    *)
(* every data group, also when a record id of the buffer is the id of no   *)
(* channel group: its record loop is never left without progress.          *)
(***************************************************************************)
C20_RecordLoopEnds == pc_unsorted # "hang"

(***************************************************************************)
(* C21: parser_dl4 ends on every NIL-terminated chain of DL blocks and     *)
(* returns each block of the chain once, in chain order: it never pushes   *)
(* more blocks than the chain has, and the list it returns is the chain.   *)
(***************************************************************************)
C21_ChainWalk ==
    /\ Len(ch_dl_blocks) <= Len(ch_file)
    /\ pc_chain = "done" => ch_dl_blocks = [i \in 1..Len(ch_file) |-> ch_file[i].addr]

(***************************************************************************)
(* C22: a NIL link is never followed while the version 3 metadata is       *)
(* parsed: no block is read at file offset 0, sharable.cc and sharable.ce  *)
(* get no entry of key 0, and get_channel_unit of a channel without        *)
(* conversion block is the empty string.                                   *)
(***************************************************************************)
C22_NilNeverFollowed ==
    /\ 0 \notin nl_reads
    /\ 0 \notin DOMAIN nl_cc
    /\ 0 \notin nl_ce
    /\ pc_nil = "done" =>
          \A i \in DOMAIN nl_cn : nl_cn[i].cn_cc_conversion = 0 => nl_units[i] = <<>>

\* the cn_bit_count bits of raw from bit cn_bit_offset on, zero-extended or
\* sign-extended to the native type of kind
BitField(raw, chan, kind) ==
    [i \in 1..NativeBits(kind) |->
        IF i <= chan.cn_bit_count THEN raw[chan.cn_bit_offset + i]
        ELSE IF kind \in SignedKinds THEN raw[chan.cn_bit_offset + chan.cn_bit_count]
        ELSE 0]

(***************************************************************************)
(* C23: after apply_bit_mask_offset every element of an integer channel is *)
(* the field of cn_bit_count bits that starts at bit cn_bit_offset of its  *)
(* n_bytes bytes, zero-extended or sign-extended, for every variant, also  *)
(* those whose native type is wider than n_bytes * 8 bits.                 *)
(***************************************************************************)
C23_BitField ==
    pc_mask = "masked" =>
        \A i \in DOMAIN bm_data.a : bm_data.a[i] = BitField(bm_raw[i], bm_cn, bm_data.kind)

\* the integer that the n_bytes bytes of the channel in record stand for,
\* zero-extended to 64 bits
WideExact(chan, record) ==
    ZeroExtend(IF chan.endian THEN ReverseBytes(WideValue(chan, record))
               ELSE WideValue(chan, record))

(***************************************************************************)
(* C24: an unsigned integer channel of 5 bytes (UInt48) or 7 bytes         *)
(* (UInt64) decodes to the exact 40-bit or 56-bit value of its bytes,      *)
(* zero-extended, little endian or big endian, in                          *)
(* read_channels_from_bytes and in read_one_channel_array.                 *)
(***************************************************************************)
C24_OddWidthExact ==
    (pc_wide = "done" /\ wd_cn.n_bytes \in {5, 7}) =>
        \A r \in DOMAIN wd_records :
            /\ wd_from_bytes[r] = WideExact(wd_cn, wd_records[r])
            /\ wd_array[r] = WideExact(wd_cn, wd_records[r])

(***************************************************************************)
(* C25: after read_data has read the data block of a data group, position  *)
(* is the absolute file offset of the cursor of the reader, so that the    *)
(* next seek_relative(dg_data - position) puts the cursor at dg_data (and  *)
(* the 4 bytes of the id leave it at dg_data + 4); also for a block longer *)
(* than 24 + record_length * cycle_count and for a data group without      *)
(* channel group.                                                          *)
(***************************************************************************)
C25_PositionIsCursor ==
    /\ (pc_pos \in {"loop", "done"} => ps_position = ps_cursor)
    /\ (pc_pos = "id" => ps_cursor = ps_dg[ps_idx].dg_data + 4)

\* the rows the file describes: for cc_type 11 the value and the trimmed
\* text of each row, for cc_type 12 the range and the text of the TX block
TableOfFile ==
    [i \in DOMAIN tb_rows |->
        IF tb_block.cc_type = 11
        THEN <<tb_rows[i][1], TrimEndNul(tb_rows[i][2])>>
        ELSE <<tb_rows[i][1], tb_rows[i][2], TableTxText(tb_rows[i][3])>>]

(***************************************************************************)
(* C26: for cc_type 11 with cc_size n, parse_cc3_block stores exactly n    *)
(* (value, text) rows in file order, the text of row i being the           *)
(* NUL-trimmed 32 bytes of row i alone; for cc_type 12 it stores exactly n *)
(* (low, high, text) rows and reads exactly n text blocks.                 *)
(***************************************************************************)
C26_TextTableRows ==
    /\ pc_table \in {"done", "panic"} => Len(tb_reads) <= tb_block.cc_size
    /\ pc_table = "done" =>
          /\ tb_cc[2] = TableOfFile
          /\ tb_block.cc_type = 12 => tb_reads = [i \in DOMAIN tb_rows |-> tb_rows[i][3]]

(***************************************************************************)
(* C27: parse_fh_comment on an ##MD block of well-formed XML returns a     *)
(* non-empty map with one entry per XML element; on a ##TX block it        *)
(* returns the single entry "comment"; the map is empty only for XML that  *)
(* is not well formed or for a NIL link.                                   *)
(***************************************************************************)
C27_FhCommentEntries ==
    pc_comment = "next" =>
        /\ (fh_md_block.hdr_id = "##MD" /\ fh_md_block.comment.well_formed) =>
              /\ DOMAIN fh_comment # {}
              /\ \A i \in DOMAIN fh_md_block.comment.nodes :
                    fh_md_block.comment.nodes[i].tag \in DOMAIN fh_comment
        /\ fh_md_block.hdr_id = "##TX" => DOMAIN fh_comment = {"comment"}
        /\ DOMAIN fh_comment = {} =>
              \/ fh_md_block.hdr_id = "nil"
              \/ fh_md_block.hdr_id = "##MD" /\ ~fh_md_block.comment.well_formed

(***************************************************************************)
(* C28: after any sequence of add_channel, remove_channel, rename_channel  *)
(* and set_channel_data, every name of channel_indexes has its chunk,      *)
(* array and field index within the bounds of arrow_data and of            *)
(* arrow_schema.fields, two names never refer to the same slot of          *)
(* arrow_data, and get_channel_data(name) is the array last stored under   *)
(* that name.                                                              *)
(***************************************************************************)
C28_IndexesConsistent ==
    /\ \A n \in DOMAIN channel_indexes :
          /\ channel_indexes[n].chunk_index < Len(arrow_data)
          /\ channel_indexes[n].array_index
                < Len(arrow_data[channel_indexes[n].chunk_index + 1])
          /\ channel_indexes[n].field_index < Len(arrow_fields)
          /\ GetChannelData(n) = mdf_stored[n]
    /\ \A n, m \in DOMAIN channel_indexes :
          n # m => <<channel_indexes[n].chunk_index, channel_indexes[n].array_index>>
                     # <<channel_indexes[m].chunk_index, channel_indexes[m].array_index>>

(***************************************************************************)
(* C29: clear_channel_data_from_memory(channel_names) removes the data of  *)
(* the named channels only: every other channel in memory is still         *)
(* returned by get_channel_data, and the entry file_name of the metadata   *)
(* of the arrow schema is unchanged.                                       *)
(***************************************************************************)
C29_ClearNamedOnly ==
    [][mdf_op'.op = "clear_channel_data_from_memory" =>
          /\ \A n \in DOMAIN channel_indexes \ mdf_op'.names :
                /\ n \in DOMAIN channel_indexes'
                /\ GetChannelData(n)' = GetChannelData(n)
          /\ arrow_metadata' = arrow_metadata]_vars

\* the channel at p is requested, not valid yet and has an array
ParToRead(p) ==
    /\ par_cn[p].unique_name \in par_names
    /\ ~par_cn[p].channel_data_valid
    /\ par_cn[p].data # <<>>

\* number of times p is in the list returned
ParTimes(p) == Cardinality({j \in DOMAIN par_result : par_result[j] = p})

=============================================================================
